---- MODULE Spec2Model ----
(***************************************************************************)
(* PicoTun tunnel data plane: the framed crypto channel (EncryptedConn),   *)
(* the stream-type routing of both endpoints, the origin pool worker, the  *)
(* mimicry handshake wrapper, the session pools and the edge UDP mapping.  *)
(* Each part has its own specification over the variables of the module.   *)
(***************************************************************************)
EXTENDS Integers, Sequences, FiniteSets, TLC

Min(a, b) == IF a < b THEN a ELSE b

Take(s, n) == SubSeq(s, 1, Min(n, Len(s)))

Drop(s, n) == SubSeq(s, n + 1, Len(s))

Fill(n, b) == [i \in 1..n |-> b]

RECURSIVE Concat(_)
Concat(ss) == IF ss = <<>> THEN <<>> ELSE Head(ss) \o Concat(Tail(ss))

(***************************************************************************)
(* Bounds of the model.                                                    *)
(***************************************************************************)
\* longest plaintext a caller hands to Write in the frame specifications
MaxLen == 5

\* largest caller buffer handed to Read
MaxBuf == 3

\* length of the large plaintexts written where burst splitting is on
BurstLen == 1100

\* substreams one session accepts in the routing specification
MaxStreams == 1

\* connections the origin workers dial in all (failed dials included)
MaxConns == 2

\* bytes the edge sends after its response headers in the handshake specification
MaxTunnel == 3

\* substreams the UDP listener opens in all
MaxFlows == 3

\* datagrams the UDP listener receives in all
MaxPackets == 3

\* the last second of the clock of the UDP specification
MaxTime == 160

\* calls of openReverseStream that reach the scan
MaxOpens == 4

\* calls of openReverseStream and Client.OpenStream together, where both run
MaxCalls == 3

(***************************************************************************)
(* Framed crypto channel, src/unnamed/part_000.                            *)
(***************************************************************************)
\* gcm.NonceSize() of the standard GCM
NonceSize == 12

\* gcm.Overhead(): the length of the authentication tag
TagSize == 16

\* 16<<20, the largest packet length Read accepts
MaxPacket == 16777216

\* binary.BigEndian.PutUint32 / Uint32 / PutUint16 / Uint16
\* (lengths of the model stay below 2^31, where uint32(n) = n; a header whose
\* first byte is 128 or more reads as one value above every legal length)
PutUint32(n) ==
    <<(n \div 16777216) % 256, (n \div 65536) % 256, (n \div 256) % 256, n % 256>>

\* a decoder that drops the most significant byte
Uint32Low(b) == b[2] * 65536 + b[3] * 256 + b[4]

Uint32(b) ==
    IF b[1] >= 128 THEN 2147483647
    ELSE b[1] * 16777216 + b[2] * 65536 + b[3] * 256 + b[4]

PutUint16(n) ==
    LET v == n % 65536
    IN  <<(v \div 256) % 256, v % 256>>

Uint16(b) == b[1] * 256 + b[2]

\* secureRandInt(n): the values the CSPRNG may return
secureRandInt(n) == IF n <= 0 THEN {0} ELSE 0..(n - 1)

\* values of the random bytes the model draws (padding bytes, nonce bytes)
RandBytes == {7, 9}

\* AES-256-GCM, abstracted: a key-and-nonce dependent byte substitution
\* followed by a tag that depends on key, nonce and ciphertext.
KeyStream(key, nonce) == (key * 31 + nonce[1]) % 256

TagByte(key, nonce, body) ==
    (key * 13 + nonce[1] * 7 + Len(body)
       + (IF Len(body) > 0 THEN body[1] + 3 * body[Len(body)] ELSE 0)) % 256

Seal(key, nonce, payload) ==
    LET body == [i \in 1..Len(payload) |-> (payload[i] + KeyStream(key, nonce)) % 256]
    IN  body \o Fill(TagSize, TagByte(key, nonce, body))

\* gcm.Open: [ok, v]
Open(key, nonce, ct) ==
    IF Len(ct) < TagSize THEN [ok |-> FALSE, v |-> <<>>]
    ELSE LET body == SubSeq(ct, 1, Len(ct) - TagSize)
             tag  == SubSeq(ct, Len(ct) - TagSize + 1, Len(ct))
         IN  IF tag = Fill(TagSize, TagByte(key, nonce, body))
             THEN [ok |-> TRUE,
                   v  |-> [i \in 1..Len(body) |->
                              (body[i] + 256 - KeyStream(key, nonce)) % 256]]
             ELSE [ok |-> FALSE, v |-> <<>>]

\* addPadding: the padded payloads it may produce (pad length and bytes are random)
addPadding(data, obfs) ==
    LET diff == obfs.MaxPadding - obfs.MinPadding
        lens == IF diff > 0
                THEN {obfs.MinPadding + r : r \in secureRandInt(diff)}
                ELSE {obfs.MinPadding}
    IN  {PutUint16(Len(data)) \o data \o Fill(padLen, b) : padLen \in lens, b \in RandBytes}

\* removePadding: [ok, v]; ok = FALSE stands for the nil result
removePadding(data) ==
    IF Len(data) < 2 THEN [ok |-> FALSE, v |-> <<>>]
    ELSE LET origLen == Uint16(data)
         IN  IF origLen + 2 > Len(data) THEN [ok |-> FALSE, v |-> <<>>]
             ELSE [ok |-> TRUE, v |-> SubSeq(data, 3, 2 + origLen)]

addStealthPadding(data, s) ==
    {PutUint16(Len(data)) \o data \o Fill(s.MinPadding + r, b) :
        r \in secureRandInt(s.MaxPadding - s.MinPadding + 1), b \in RandBytes}

removeStealthPadding(data) ==
    IF Len(data) < 2 THEN [ok |-> FALSE, v |-> <<>>]
    ELSE LET origLen == Uint16(data)
         IN  IF origLen + 2 > Len(data) \/ origLen = 0 THEN [ok |-> FALSE, v |-> <<>>]
             ELSE [ok |-> TRUE, v |-> SubSeq(data, 3, 2 + origLen)]

\* step 1 of writePacket: the payloads that may be framed for data
paddedPayloads(c, data) ==
    IF c.obfs.present /\ c.obfs.Enabled THEN addPadding(data, c.obfs)
    ELSE IF c.stealth.present /\ c.stealth.RandomPadding /\ Len(data) > 4
         THEN addStealthPadding(data, c.stealth)
         ELSE {data}

\* step 2 of writePacket: the buffers it may hand to conn.Write for data
writePacket(c, data) ==
    IF c.key # 0
    THEN {PutUint32(NonceSize + Len(Seal(c.key, Fill(NonceSize, nb), payload)))
            \o Fill(NonceSize, nb) \o Seal(c.key, Fill(NonceSize, nb), payload) :
              payload \in paddedPayloads(c, data), nb \in RandBytes}
    ELSE {PutUint32(Len(payload)) \o payload : payload \in paddedPayloads(c, data)}

\* the body of Read after a whole packet was read: [err, v]
decodePacket(c, pkt) ==
    LET opened == IF c.key # 0
                  THEN IF Len(pkt) < NonceSize THEN [err |-> "short packet", v |-> <<>>]
                       ELSE LET o == Open(c.key, Take(pkt, NonceSize), Drop(pkt, NonceSize))
                            IN  IF o.ok THEN [err |-> "nil", v |-> o.v]
                                ELSE [err |-> "decrypt", v |-> <<>>]
                  ELSE [err |-> "nil", v |-> pkt]
    IN  IF opened.err # "nil" THEN opened
        ELSE IF c.obfs.present /\ c.obfs.Enabled
             THEN LET r == removePadding(opened.v)
                  IN  IF r.ok THEN [err |-> "nil", v |-> r.v]
                      ELSE [err |-> "padding", v |-> <<>>]
             ELSE IF c.stealth.present /\ c.stealth.RandomPadding
                  THEN LET r == removeStealthPadding(opened.v)
                       IN  IF r.ok THEN [err |-> "nil", v |-> r.v] ELSE opened
                  ELSE opened

(***************************************************************************)
(* State of one EncryptedConn pair: the writing end, the bytes in flight   *)
(* on the underlying stream and the reading end.                           *)
(***************************************************************************)
VARIABLES
    cfg,        \* key, obfs and stealth configuration, the same on both ends
    queue,      \* per task: the byte strings it will hand to Write, in order
    pc,         \* per task: "idle", or "burst" inside burstWrite
    remaining,  \* per task: burstWrite's remaining
    total,      \* per task: burstWrite's total
    wres,       \* per task: what its last Write returned, [n, err]
    writeMu,    \* holder of c.writeMu, 0 when free
    wire,       \* bytes written to the underlying stream and not yet read
    connState,  \* "open" or "closed": the underlying stream
    readBuf,    \* c.readBuf
    rres,       \* what the last Read returned, [n, err]
    sent,       \* history: the plaintext of every packet written, in wire order
    frames,     \* history: [task, call, len] of every buffer handed to conn.Write
    delivered,  \* history: the bytes returned by Read so far
    faults,     \* faults the environment may still inject
    tampered,   \* history: the environment changed or added bytes on the wire
    failed,     \* history: a Read or Write has returned a terminal error
    okAfterFail \* history: an operation succeeded after failed was set

frameVars == <<cfg, queue, pc, remaining, total, wres, writeMu, wire, connState,
               readBuf, rres, sent, frames, delivered, faults, tampered, failed,
               okAfterFail>>

\* writer tasks of one channel
Tasks == {1, 2}

\* a Lock that never waits for the holder
writeMuIgnored == TRUE

\* c.writeMu.Lock() succeeds only on a free mutex
writeMuFree == writeMu = 0

\* the condition of Write under which it takes the burst path
takesBurst(c, data) ==
    c.stealth.present /\ c.stealth.BurstSplit /\ Len(data) > c.stealth.MaxBurstSize

\* bookkeeping common to every return of Write
WriteReturns(t, n, err) ==
    /\ wres' = [wres EXCEPT ![t] = [n |-> n, err |-> err]]
    /\ failed' = (failed \/ err # "nil")
    /\ okAfterFail' = (okAfterFail \/ (failed /\ err = "nil"))

\* EncryptedConn.Write: lock, then burstWrite or one writePacket
Write(t) ==
    /\ pc[t] = "idle" /\ queue[t] # <<>>
    /\ writeMuFree
    /\ queue' = [queue EXCEPT ![t] = Tail(@)]
    /\ LET data == Head(queue[t]) IN
         IF takesBurst(cfg, data)
         THEN /\ writeMu' = t
              /\ pc' = [pc EXCEPT ![t] = "burst"]
              /\ remaining' = [remaining EXCEPT ![t] = data]
              /\ total' = [total EXCEPT ![t] = 0]
              /\ UNCHANGED <<wire, sent, frames, wres, failed, okAfterFail>>
         ELSE /\ UNCHANGED <<writeMu, pc, remaining, total>>
              /\ IF connState = "closed"
                 THEN /\ WriteReturns(t, 0, "conn")
                      /\ UNCHANGED <<wire, sent, frames>>
                 ELSE /\ \E buf \in writePacket(cfg, data) : wire' = wire \o buf
                      /\ sent' = sent \o data
                      /\ frames' = Append(frames, [task |-> t, call |-> Len(queue[t]) - 1,
                                                   len |-> Len(data)])
                      /\ WriteReturns(t, Len(data), "nil")
    /\ UNCHANGED <<cfg, connState, readBuf, rres, delivered, faults, tampered>>

\* a chunk size drawn from 1 up
burstChunkSizeFromOne(r, left) == Min(1 + r, left)

\* burstWrite: chunkSize := 512 + secureRandInt(...), cut down to len(remaining)
burstChunkSize(r, left) == Min(512 + r, left)

\* one iteration of the loop of burstWrite; the last one unlocks and returns
BurstChunk(t) ==
    /\ pc[t] = "burst"
    /\ LET maxBurst == IF cfg.stealth.MaxBurstSize <= 0 THEN 4096
                       ELSE cfg.stealth.MaxBurstSize
       IN \E r \in secureRandInt(maxBurst - 512 + 1) :
            LET chunkSize == burstChunkSize(r, Len(remaining[t]))
                chunk == Take(remaining[t], chunkSize)
                rest == Drop(remaining[t], chunkSize)
            IN  IF connState = "closed"
                THEN /\ WriteReturns(t, total[t], "conn")
                     /\ writeMu' = 0
                     /\ pc' = [pc EXCEPT ![t] = "idle"]
                     /\ UNCHANGED <<wire, sent, frames, remaining, total>>
                ELSE /\ \E buf \in writePacket(cfg, chunk) : wire' = wire \o buf
                     /\ sent' = sent \o chunk
                     /\ frames' = Append(frames, [task |-> t, call |-> Len(queue[t]),
                                                  len |-> Len(chunk)])
                     /\ remaining' = [remaining EXCEPT ![t] = rest]
                     /\ total' = [total EXCEPT ![t] = @ + Len(chunk)]
                     /\ IF Len(rest) > 0
                        THEN UNCHANGED <<writeMu, pc, wres, failed, okAfterFail>>
                        ELSE /\ writeMu' = 0
                             /\ pc' = [pc EXCEPT ![t] = "idle"]
                             /\ WriteReturns(t, total[t] + Len(chunk), "nil")
    /\ UNCHANGED <<cfg, queue, connState, readBuf, rres, delivered, faults,
                   tampered>>

\* a copy that keeps nothing of what does not fit
copyNoLeftover(plaintext, n) == [out |-> Take(plaintext, n), rest |-> <<>>]

\* n := copy(p, plaintext) for a caller buffer of n bytes, and what is left:
\* [out, rest]
copyOut(plaintext, n) == [out |-> Take(plaintext, n), rest |-> Drop(plaintext, n)]

\* bookkeeping common to every return of Read
ReadReturns(bytes, err) ==
    /\ rres' = [n |-> Len(bytes), err |-> err]
    /\ delivered' = delivered \o bytes
    /\ failed' = (failed \/ err # "nil")
    /\ okAfterFail' = (okAfterFail \/ (failed /\ err = "nil"))

\* EncryptedConn.Read with a caller buffer of n bytes.  io.ReadFull blocks
\* while the stream is open and bytes are missing.
Read(n) ==
    /\ IF Len(readBuf) > 0
       THEN /\ ReadReturns(Take(readBuf, n), "nil")
            /\ readBuf' = Drop(readBuf, n)
            /\ UNCHANGED wire
       ELSE IF Len(wire) < 4
       THEN /\ connState = "closed"
            /\ ReadReturns(<<>>, "eof")
            /\ wire' = <<>>
            /\ UNCHANGED readBuf
       ELSE LET pktLen == Uint32(Take(wire, 4))
            IN  IF pktLen = 0 \/ pktLen > MaxPacket
                THEN /\ ReadReturns(<<>>, "length")
                     /\ wire' = Drop(wire, 4)
                     /\ UNCHANGED readBuf
                ELSE IF Len(wire) - 4 < pktLen
                THEN /\ connState = "closed"
                     /\ ReadReturns(<<>>, "eof")
                     /\ wire' = <<>>
                     /\ UNCHANGED readBuf
                ELSE LET d == decodePacket(cfg, SubSeq(wire, 5, 4 + pktLen))
                     IN  /\ wire' = Drop(wire, 4 + pktLen)
                         /\ IF d.err # "nil"
                            THEN /\ ReadReturns(<<>>, d.err)
                                 /\ UNCHANGED readBuf
                            ELSE /\ ReadReturns(copyOut(d.v, n).out, "nil")
                                 /\ readBuf' = copyOut(d.v, n).rest
    /\ UNCHANGED <<cfg, queue, pc, remaining, total, wres, writeMu, connState, sent,
                   frames, faults, tampered>>

\* the peer closes or resets the underlying stream
CloseConn ==
    /\ connState = "open"
    /\ connState' = "closed"
    /\ UNCHANGED <<cfg, queue, pc, remaining, total, wres, writeMu, wire, readBuf,
                   rres, sent, frames, delivered, faults, tampered, failed,
                   okAfterFail>>

\* the network corrupts the last byte in flight (the end of a frame's tag or body)
Tamper ==
    /\ faults > 0 /\ Len(wire) > 0
    /\ faults' = faults - 1
    /\ tampered' = TRUE
    /\ wire' = [wire EXCEPT ![Len(wire)] = (@ + 1) % 256]
    /\ UNCHANGED <<cfg, queue, pc, remaining, total, wres, writeMu, connState,
                   readBuf, rres, sent, frames, delivered, failed, okAfterFail>>

\* headers with an illegal length, as a broken or hostile peer may send them
BadHeaders == {PutUint32(0), PutUint32(MaxPacket + 1)}

\* the header with the largest legal length
LargestHeader == PutUint32(MaxPacket)

\* plaintexts without a valid padding prefix: one byte, and five bytes whose
\* prefix asks for nine
BadPaddings == {<<9>>, <<0, 9, 1, 1, 1>>}

\* packets whose plaintext has no valid padding prefix
BadPaddingPackets(c) ==
    IF c.key # 0
    THEN {PutUint32(NonceSize + Len(p) + TagSize) \o Fill(NonceSize, nb)
            \o Seal(c.key, Fill(NonceSize, nb), p) : nb \in RandBytes, p \in BadPaddings}
    ELSE {PutUint32(Len(p)) \o p : p \in BadPaddings}

\* the peer sends bytes that are not a frame of this end's writer
Inject ==
    /\ faults > 0 /\ connState = "open"
    /\ faults' = faults - 1
    /\ tampered' = TRUE
    /\ \E buf \in BadHeaders \cup {LargestHeader} \cup BadPaddingPackets(cfg) :
          wire' = wire \o buf
    /\ UNCHANGED <<cfg, queue, pc, remaining, total, wres, writeMu, connState,
                   readBuf, rres, sent, frames, delivered, failed, okAfterFail>>

(***************************************************************************)
(* Configurations and plaintexts of the frame specifications.                *)
(***************************************************************************)
\* bytes of the plaintexts the callers write
PayloadBytes == {0, 1}

\* every plaintext of 1..n bytes
Payloads(n) == UNION {[1..m -> PayloadBytes] : m \in 1..n}

\* *ObfsConfig: nil, disabled, enabled with 1..2 bytes of padding
ObfsConfigs ==
    {[present |-> FALSE, Enabled |-> FALSE, MinPadding |-> 0, MaxPadding |-> 0],
     [present |-> TRUE, Enabled |-> FALSE, MinPadding |-> 1, MaxPadding |-> 3],
     [present |-> TRUE, Enabled |-> TRUE, MinPadding |-> 1, MaxPadding |-> 3]}

\* *StealthConfig without burst splitting: nil, no padding, 0..1 bytes of padding
StealthConfigs ==
    {[present |-> FALSE, RandomPadding |-> FALSE, MinPadding |-> 0, MaxPadding |-> 0,
      BurstSplit |-> FALSE, MaxBurstSize |-> 4096],
     [present |-> TRUE, RandomPadding |-> FALSE, MinPadding |-> 0, MaxPadding |-> 1,
      BurstSplit |-> FALSE, MaxBurstSize |-> 4096],
     [present |-> TRUE, RandomPadding |-> TRUE, MinPadding |-> 0, MaxPadding |-> 1,
      BurstSplit |-> FALSE, MaxBurstSize |-> 4096]}

\* psk = "" (key 0) or a shared secret
Keys == {0, 1}

FrameConfigs == [key : Keys, obfs : ObfsConfigs, stealth : StealthConfigs]

\* the state after NewEncryptedConn on both ends of a fresh stream
FrameStart(cfgs, queues, nfaults) ==
    /\ cfg \in cfgs
    /\ queue \in queues
    /\ pc = [t \in Tasks |-> "idle"]
    /\ remaining = [t \in Tasks |-> <<>>]
    /\ total = [t \in Tasks |-> 0]
    /\ wres = [t \in Tasks |-> [n |-> 0, err |-> "nil"]]
    /\ writeMu = 0
    /\ wire = <<>>
    /\ connState = "open"
    /\ readBuf = <<>>
    /\ rres = [n |-> 0, err |-> "nil"]
    /\ sent = <<>>
    /\ frames = <<>>
    /\ delivered = <<>>
    /\ faults = nfaults
    /\ tampered = FALSE
    /\ failed = FALSE
    /\ okAfterFail = FALSE


(***************************************************************************)
(* Stream-type routing of accepted substreams: Server.handleStream         *)
(* (src/server.go) on the edge, Client.handleReverseStream                 *)
(* (src/unnamed/part_002) on the origin.                                   *)
(***************************************************************************)
StreamTypeForward == 1

StreamTypeReverse == 2

\* the tag sendFakeData writes and handleReverseStream drains
StreamTypeFake == 255

\* largest target length a receiver accepts
MaxTargetLen == 4096

\* ASCII of "tcp://", "udp://" and of the address "h:1"
TcpScheme == <<116, 99, 112, 58, 47, 47>>

UdpScheme == <<117, 100, 112, 58, 47, 47>>

HostPort == <<104, 58, 49>>

HasPrefix(sq, pre) == Len(sq) >= Len(pre) /\ SubSeq(sq, 1, Len(pre)) = pre

TrimPrefix(sq, pre) == IF HasPrefix(sq, pre) THEN Drop(sq, Len(pre)) ELSE sq

\* a splitTarget that knows no udp:// scheme
splitTargetTcpOnly(sq) == [network |-> "tcp", addr |-> TrimPrefix(sq, TcpScheme)]

\* splitTarget
splitTarget(sq) ==
    IF HasPrefix(sq, UdpScheme)
    THEN [network |-> "udp", addr |-> TrimPrefix(sq, UdpScheme)]
    ELSE [network |-> "tcp", addr |-> TrimPrefix(sq, TcpScheme)]

\* what a handler decides for a substream before it blocks in Dial, Copy or returns
RouteClose == [act |-> "close", network |-> "", addr |-> <<>>]

RouteDrain == [act |-> "drain", network |-> "", addr |-> <<>>]

RouteDial(t) == [act |-> "dial", network |-> t.network, addr |-> t.addr]

\* a handleForwardStream that checks the upper bound of the length only
handleForwardStreamZeroLen(data) ==
    IF Len(data) < 2 THEN RouteClose
    ELSE LET tLen == Uint16(data)
         IN  IF tLen > MaxTargetLen THEN RouteClose
             ELSE IF Len(data) - 2 < tLen THEN RouteClose
             ELSE RouteDial(splitTarget(SubSeq(data, 3, 2 + tLen)))

\* Server.handleForwardStream on the bytes that follow the tag; io.ReadFull fails
\* (deadline or EOF) when the opener wrote fewer bytes than asked for
handleForwardStream(data) ==
    IF Len(data) < 2 THEN RouteClose
    ELSE LET tLen == Uint16(data)
         IN  IF tLen = 0 \/ tLen > MaxTargetLen THEN RouteClose
             ELSE IF Len(data) - 2 < tLen THEN RouteClose
             ELSE RouteDial(splitTarget(SubSeq(data, 3, 2 + tLen)))

\* a handleStream that dials whatever the first byte is
handleStreamAnyTag(data) ==
    IF Len(data) < 1 THEN RouteClose
    ELSE handleForwardStream(Tail(data))

\* Server.handleStream
handleStream(data) ==
    IF Len(data) < 1 THEN RouteClose
    ELSE IF data[1] = StreamTypeForward THEN handleForwardStream(Tail(data))
    ELSE RouteClose

\* Client.proxyReverseStream on the bytes that follow the tag
proxyReverseStream(data) ==
    IF Len(data) < 2 THEN RouteClose
    ELSE LET tLen == Uint16(data)
         IN  IF tLen = 0 \/ tLen > MaxTargetLen THEN RouteClose
             ELSE IF Len(data) - 2 < tLen THEN RouteClose
             ELSE RouteDial(splitTarget(SubSeq(data, 3, 2 + tLen)))

\* Client.handleLegacyStream: firstByte is the byte already read as the tag
handleLegacyStream(data, firstByte) ==
    IF Len(data) < 1 THEN RouteClose
    ELSE LET tLen == Uint16(<<firstByte, data[1]>>)
         IN  IF tLen = 0 \/ tLen > MaxTargetLen THEN RouteClose
             ELSE IF Len(data) - 1 < tLen THEN RouteClose
             ELSE RouteDial(splitTarget(SubSeq(data, 2, 1 + tLen)))

\* Client.handleReverseStream
handleReverseStream(data) ==
    IF Len(data) < 1 THEN RouteClose
    ELSE IF data[1] = StreamTypeReverse THEN proxyReverseStream(Tail(data))
    ELSE IF data[1] = StreamTypeFake THEN RouteDrain
    ELSE handleLegacyStream(Tail(data), data[1])

VARIABLES
    endpoint,   \* "edge" or "origin": the side that accepts the substreams
    sessOpen,   \* the smux session is open
    sessKilled, \* history: the transport under the session died
    streamsCnt, \* serverSession.streams of the session (edge)
    sPc,        \* per substream: position of its handler goroutine
    sIn,        \* per substream: every byte the opener writes on it
    sRoute      \* per substream: the decision of its handler

routeVars == <<endpoint, sessOpen, sessKilled, streamsCnt, sPc, sIn, sRoute>>

Streams == 1..MaxStreams

\* a handler whose return tears the whole session down
closeSession(s) ==
    /\ sPc' = [sPc EXCEPT ![s] = "closed"]
    /\ streamsCnt' = IF endpoint = "edge" THEN streamsCnt - 1 ELSE streamsCnt
    /\ sessOpen' = FALSE
    /\ UNCHANGED sessKilled

\* the handler's deferred stream.Close and, on the edge, the decrement of ss.streams
closeStream(s) ==
    /\ sPc' = [sPc EXCEPT ![s] = "closed"]
    /\ streamsCnt' = IF endpoint = "edge" THEN streamsCnt - 1 ELSE streamsCnt
    /\ UNCHANGED <<sessOpen, sessKilled>>

\* the accept loop of handleTunnel / connectAndServe: go handleStream(stream)
AcceptStream(s, data) ==
    /\ sessOpen /\ sPc[s] = "free"
    /\ sPc' = [sPc EXCEPT ![s] = "accepted"]
    /\ sIn' = [sIn EXCEPT ![s] = data]
    /\ UNCHANGED <<endpoint, sessOpen, sessKilled, streamsCnt, sRoute>>

\* the handler from its entry to the point where it dials, drains or returns
RouteStream(s) ==
    /\ sPc[s] = "accepted"
    /\ LET r == IF ~sessOpen THEN RouteClose
                ELSE IF endpoint = "edge" THEN handleStream(sIn[s])
                ELSE handleReverseStream(sIn[s])
       IN  /\ sRoute' = [sRoute EXCEPT ![s] = r]
           /\ IF r.act = "close"
              THEN /\ sPc' = [sPc EXCEPT ![s] = "closed"]
                   /\ UNCHANGED streamsCnt
              ELSE /\ sPc' = [sPc EXCEPT ![s] = IF r.act = "dial" THEN "dialing"
                                                ELSE "draining"]
                   /\ streamsCnt' = IF endpoint = "edge" THEN streamsCnt + 1
                                    ELSE streamsCnt
    /\ UNCHANGED <<endpoint, sessOpen, sessKilled, sIn>>

\* net.DialTimeout returns: relay on success, return on failure
DialResult(s, ok) ==
    /\ sPc[s] = "dialing"
    /\ IF ok THEN /\ sPc' = [sPc EXCEPT ![s] = "relay"]
                  /\ UNCHANGED <<sessOpen, sessKilled, streamsCnt>>
       ELSE closeStream(s)
    /\ UNCHANGED <<endpoint, sIn, sRoute>>

\* relay or io.Copy(io.Discard, stream) returns
StreamEnd(s) ==
    /\ sPc[s] \in {"relay", "draining"}
    /\ closeStream(s)
    /\ UNCHANGED <<endpoint, sIn, sRoute>>

\* the transport under the session dies (keepalive timeout, peer reset)
SessionDies ==
    /\ sessOpen
    /\ sessOpen' = FALSE
    /\ sessKilled' = TRUE
    /\ UNCHANGED <<endpoint, streamsCnt, sPc, sIn, sRoute>>

\* first bytes a substream may carry
Tags == {0, StreamTypeForward, StreamTypeReverse, 16, 17, StreamTypeFake}

\* target strings: tcp://h:1, udp://h:1, h:1, and scheme-less strings of the
\* shortest and of the longest length a receiver accepts
Targets ==
    {TcpScheme \o HostPort, UdpScheme \o HostPort, HostPort,
     Fill(1, 104), Fill(MaxTargetLen, 104)}

\* sendTarget: uint16_be |t| then t
TargetHeader(t) == PutUint16(Len(t)) \o t

\* what may follow the first byte: a target header, the rest of a v2.4 header,
\* a header with an illegal length, a truncated header, fake payload, nothing
Bodies ==
    {TargetHeader(t) : t \in Targets}
      \cup {Tail(TargetHeader(t)) : t \in Targets}
      \cup {PutUint16(0), PutUint16(MaxTargetLen + 1), <<0, 9, 116>>, <<7, 9>>, <<>>}
      \cup {<<0>> \o Fill(MaxTargetLen, 104)}
      \cup {PutUint16(0) \o HostPort,
            PutUint16(MaxTargetLen + 1) \o Fill(MaxTargetLen + 1, 104)}

RouteInputs == {<<tag>> \o b : tag \in Tags, b \in Bodies} \cup {<<>>}

\* a session that has accepted none of the substreams ss yet
RouteFrom(ends, ss) ==
    /\ endpoint \in ends
    /\ sessOpen = TRUE
    /\ sessKilled = FALSE
    /\ streamsCnt = 0
    /\ sPc = [s \in ss |-> "free"]
    /\ sIn = [s \in ss |-> <<>>]
    /\ sRoute = [s \in ss |-> RouteClose]

RouteStart(ends) == RouteFrom(ends, Streams)

(***************************************************************************)
(* Session pools.  Origin: Client.poolWorker, connectAndServe,             *)
(* sessionHealthCheck (src/unnamed/part_002) and ClientHandshake           *)
(* (src/tls_fragment.go).  Edge: Server.handleTunnel, healthMonitor        *)
(* (src/server.go).  Connection k links origin session k and edge          *)
(* session k.                                                              *)
(***************************************************************************)
maxFailsBeforeSwitch == 3

\* connDuration below which a return of connectAndServe counts as a failure, in ms
QuickLimitMs == 30000

\* the sleep after the last path was tried, in ms
AllPathsSleepMs == 10000

\* the cap of the graduated backoff, in ms
BackoffCapMs == 15000

VARIABLES
    paths,      \* c.paths: the retry interval of each configured path, in ms
    wPc,        \* per worker: "dial", "handshake", "serve", "sleep", "crashed"
    wConn,      \* per worker: conn of connectAndServe: "nil", "raw", "buffered"
    wSess,      \* per worker: the connection it dialed last
    failCount,  \* per worker: failCount of poolWorker
    pathIdx,    \* per worker: pathIdx of poolWorker
    wSleep,     \* per worker: the sleep poolWorker chose, [kind, ms, jitter], with the
                \* history of the return before it: [long, path, fails]
    hsFailed,   \* per worker, history: its last handshake failed
    cSessions,  \* Client.sessions
    closedO,    \* origin sessions for which IsClosed() is true
    rawOpenO,   \* connections whose socket is open on the origin
    sessions,   \* Server.sessions: entries [id, streams]
    closedE,    \* edge sessions for which IsClosed() is true
    eHandlers,  \* connections whose handleTunnel is in its accept loop
    link,       \* per connection: "none", "dialed", "accepted", "rejected", "other200"
    deadLinks,  \* connections whose transport is gone
    nextId,     \* the next connection to dial
    panicked,   \* the origin process died of a runtime panic
    evictedE,   \* evicted of the last healthMonitor tick
    removedO,   \* removed of the last sessionHealthCheck tick
    tockE,      \* history: flips at every healthMonitor tick
    tockO       \* history: flips at every sessionHealthCheck tick

workerVars == <<paths, wPc, wConn, wSess, failCount, pathIdx, wSleep, hsFailed>>

poolVars == <<workerVars, cSessions, closedO, rawOpenO, sessions, closedE, eHandlers, link,
              deadLinks, nextId, panicked, evictedE, removedO, tockE, tockO>>

\* pool workers of the origin (connection_pool)
Workers == {1, 2}

\* advanced.max_connections of the edge, below the number of workers
MaxConnections == 1

ConnIds == 1..MaxConns

\* wSleep of a worker that is not sleeping
NoSleep ==
    [kind |-> "none", ms |-> 0, jitter |-> FALSE, long |-> FALSE, path |-> 0, fails |-> 0]

\* ClientHandshakeWithStealth after the response was read: [conn, err];
\* status 0 stands for a response that could not be read
ClientHandshake(status) ==
    IF status = 101 \/ status = 200
    THEN [conn |-> "buffered", err |-> FALSE]
    ELSE [conn |-> "nil", err |-> TRUE]

\* the status the origin reads on connection k
StatusOf(k) ==
    IF link[k] = "accepted" THEN 101
    ELSE IF link[k] = "rejected" THEN 404
    ELSE IF link[k] = "other200" THEN 200
    ELSE 0

\* Client.addSession / Server.addSession
addSession(list, e) == Append(list, e)

\* removeSession: drop the first entry for which same(e) holds
RECURSIVE removeFirst(_, _)
removeFirst(list, k) ==
    IF list = <<>> THEN <<>>
    ELSE IF Head(list) = k THEN Tail(list)
    ELSE <<Head(list)>> \o removeFirst(Tail(list), k)

\* a removeSession that leaves the list as it is
removeSessionKeeps(list, k) == list

\* Client.removeSession
removeSession(list, k) == removeFirst(list, k)

\* Server.removeSession on the entry of session k
RECURSIVE removeServerSession(_, _)
removeServerSession(list, k) ==
    IF list = <<>> THEN <<>>
    ELSE IF Head(list).id = k THEN Tail(list)
    ELSE <<Head(list)>> \o removeServerSession(Tail(list), k)

\* the loop of sessionHealthCheck: alive := c.sessions[:0], then
\* alive = append(alive, s) for every s that is not closed.  arr is the shared
\* backing array, i the index read, n the length of alive so far.
RECURSIVE clientAlive(_, _, _, _)
clientAlive(arr, i, n, closed) ==
    IF i > Len(arr) THEN SubSeq(arr, 1, n)
    ELSE IF arr[i] \in closed THEN clientAlive(arr, i + 1, n, closed)
    ELSE clientAlive([arr EXCEPT ![n + 1] = arr[i]], i + 1, n + 1, closed)

\* a loop of healthMonitor that stops at the first closed session
RECURSIVE serverAliveUntilClosed(_, _, _, _)
serverAliveUntilClosed(arr, i, n, closed) ==
    IF i > Len(arr) THEN SubSeq(arr, 1, n)
    ELSE IF arr[i].id \in closed THEN SubSeq(arr, 1, n)
    ELSE serverAliveUntilClosed([arr EXCEPT ![n + 1] = arr[i]], i + 1, n + 1, closed)

\* the loop of healthMonitor: alive := s.sessions[:0], then
\* alive = append(alive, ss) for every ss whose session is not closed
RECURSIVE serverAlive(_, _, _, _)
serverAlive(arr, i, n, closed) ==
    IF i > Len(arr) THEN SubSeq(arr, 1, n)
    ELSE IF arr[i].id \in closed THEN serverAlive(arr, i + 1, n, closed)
    ELSE serverAlive([arr EXCEPT ![n + 1] = arr[i]], i + 1, n + 1, closed)

\* poolWorker leaving the path on every error
afterReturnAlwaysSwitch(fc, pi, long, retry) ==
    [failCount |-> 0, pathIdx |-> (pi + 1) % Len(paths),
     sleep |-> [kind |-> "retry", ms |-> retry, jitter |-> TRUE]]

\* poolWorker after connectAndServe returned an error: the new failCount and
\* pathIdx and the sleep before the next iteration.  long: connDuration >= 30 s;
\* retry: retryInterval of the path just used
afterReturn(fc, pi, long, retry) ==
    LET fc1 == IF long THEN 0 ELSE fc + 1
        pi2 == (pi + 1) % Len(paths)
    IN  IF fc1 >= maxFailsBeforeSwitch /\ Len(paths) > 1
        THEN [failCount |-> 0, pathIdx |-> pi2,
              sleep |-> IF pi2 = 0
                        THEN [kind |-> "allpaths", ms |-> AllPathsSleepMs, jitter |-> FALSE]
                        ELSE [kind |-> "retry", ms |-> retry, jitter |-> TRUE]]
        ELSE IF fc1 > 0
        THEN [failCount |-> fc1, pathIdx |-> pi,
              sleep |-> [kind |-> "backoff", ms |-> Min(retry * fc1, BackoffCapMs),
                         jitter |-> FALSE]]
        ELSE [failCount |-> fc1, pathIdx |-> pi,
              sleep |-> [kind |-> "retry", ms |-> retry, jitter |-> TRUE]]

\* retryInterval of poolWorker for the current path
retryInterval(w) ==
    IF paths[pathIdx[w] + 1] <= 0 THEN 3000 ELSE paths[pathIdx[w] + 1]

\* a poolWorker that returns on the first error
ReturnsErrorAndStops(w, long) ==
    /\ wPc' = [wPc EXCEPT ![w] = "stopped"]
    /\ wConn' = [wConn EXCEPT ![w] = "nil"]
    /\ wSess' = [wSess EXCEPT ![w] = 0]
    /\ UNCHANGED <<failCount, pathIdx, wSleep>>

\* connectAndServe of worker w returns an error to poolWorker
ReturnsError(w, long) ==
    LET r == afterReturn(failCount[w], pathIdx[w], long, retryInterval(w))
    IN  /\ failCount' = [failCount EXCEPT ![w] = r.failCount]
        /\ pathIdx' = [pathIdx EXCEPT ![w] = r.pathIdx]
        /\ wSleep' = [wSleep EXCEPT ![w] =
                         [kind |-> r.sleep.kind, ms |-> r.sleep.ms, jitter |-> r.sleep.jitter,
                          long |-> long, path |-> pathIdx[w], fails |-> failCount[w]]]
        /\ wPc' = [wPc EXCEPT ![w] = "sleep"]
        /\ wConn' = [wConn EXCEPT ![w] = "nil"]
        /\ wSess' = [wSess EXCEPT ![w] = 0]

\* connectAndServe step 1: dial
Dial(w, ok, long) ==
    /\ ~panicked /\ wPc[w] = "dial" /\ nextId <= MaxConns
    /\ nextId' = nextId + 1
    /\ hsFailed' = [hsFailed EXCEPT ![w] = FALSE]
    /\ IF ok
       THEN /\ link' = [link EXCEPT ![nextId] = "dialed"]
            /\ rawOpenO' = rawOpenO \cup {nextId}
            /\ wConn' = [wConn EXCEPT ![w] = "raw"]
            /\ wSess' = [wSess EXCEPT ![w] = nextId]
            /\ wPc' = [wPc EXCEPT ![w] = "handshake"]
            /\ UNCHANGED <<failCount, pathIdx, wSleep>>
       ELSE /\ ReturnsError(w, long)
            /\ UNCHANGED <<link, rawOpenO>>
    /\ UNCHANGED <<paths, cSessions, closedO, sessions, closedE, eHandlers, deadLinks,
                   panicked, evictedE, removedO, tockE, tockO>>

\* connectAndServe steps 2 to 4: conn, err = ClientHandshake(conn, c.mimic); on an
\* error conn.Close() and return; else NewEncryptedConn, smux.Client, addSession.
\* Calling Close on the nil conn of a failed handshake is a runtime panic.
Handshake(w, long) ==
    /\ ~panicked /\ wPc[w] = "handshake"
    /\ link[wSess[w]] # "dialed" \/ wSess[w] \in deadLinks
    /\ LET r == ClientHandshake(StatusOf(wSess[w]))
       IN  /\ hsFailed' = [hsFailed EXCEPT ![w] = r.err]
           /\ IF ~r.err
              THEN /\ cSessions' = addSession(cSessions, wSess[w])
                   /\ wConn' = [wConn EXCEPT ![w] = r.conn]
                   /\ wPc' = [wPc EXCEPT ![w] = "serve"]
                   /\ UNCHANGED <<wSess, failCount, pathIdx, wSleep, rawOpenO, deadLinks,
                                  panicked>>
              ELSE IF r.conn = "nil"
              THEN /\ panicked' = TRUE
                   /\ wConn' = [wConn EXCEPT ![w] = r.conn]
                   /\ wPc' = [wPc EXCEPT ![w] = "crashed"]
                   /\ UNCHANGED <<wSess, failCount, pathIdx, wSleep, rawOpenO, deadLinks,
                                  cSessions>>
              ELSE /\ rawOpenO' = rawOpenO \ {wSess[w]}
                   /\ deadLinks' = deadLinks \cup {wSess[w]}
                   /\ ReturnsError(w, long)
                   /\ UNCHANGED <<cSessions, panicked>>
    /\ UNCHANGED <<paths, closedO, sessions, closedE, eHandlers, link, nextId,
                   evictedE, removedO, tockE, tockO>>

\* connectAndServe step 5: AcceptStream fails on the closed session:
\* removeSession, sess.Close(), return
ServeEnds(w, long) ==
    /\ ~panicked /\ wPc[w] = "serve" /\ wSess[w] \in closedO
    /\ cSessions' = removeSession(cSessions, wSess[w])
    /\ rawOpenO' = rawOpenO \ {wSess[w]}
    /\ deadLinks' = deadLinks \cup {wSess[w]}
    /\ ReturnsError(w, long)
    /\ UNCHANGED <<paths, hsFailed, closedO, sessions, closedE, eHandlers,
                   link, nextId, panicked, evictedE, removedO, tockE, tockO>>

\* the sleep of poolWorker is over
Wake(w) ==
    /\ ~panicked /\ wPc[w] = "sleep"
    /\ wPc' = [wPc EXCEPT ![w] = "dial"]
    /\ wSleep' = [wSleep EXCEPT ![w] = NoSleep]
    /\ UNCHANGED <<paths, wConn, wSess, failCount, pathIdx, hsFailed, cSessions,
                   closedO, rawOpenO, sessions, closedE, eHandlers, link, deadLinks, nextId,
                   panicked, evictedE, removedO, tockE, tockO>>

\* Client.sessionHealthCheck, one tick: Close and drop the closed sessions
SessionHealthCheck ==
    /\ ~panicked
    /\ cSessions' = clientAlive(cSessions, 1, 0, closedO)
    /\ removedO' = Cardinality({i \in 1..Len(cSessions) : cSessions[i] \in closedO})
    /\ tockO' = ~tockO
    /\ UNCHANGED <<workerVars, closedO, rawOpenO, sessions, closedE, eHandlers, link,
                   deadLinks, nextId, panicked, evictedE, tockE>>

\* Server.handleTunnel up to its accept loop, for the request on connection k:
\* a request that fails validateRequest gets the decoy 404
HandleTunnel(k, valid) ==
    /\ link[k] = "dialed" /\ k \notin deadLinks
    /\ IF valid
       THEN /\ link' = [link EXCEPT ![k] = "accepted"]
            /\ sessions' = addSession(sessions, [id |-> k, streams |-> 0])
            /\ eHandlers' = eHandlers \cup {k}
       ELSE /\ link' = [link EXCEPT ![k] = "rejected"]
            /\ UNCHANGED <<sessions, eHandlers>>
    /\ UNCHANGED <<workerVars, cSessions, closedO, rawOpenO, closedE, deadLinks, nextId,
                   panicked, evictedE, removedO, tockE, tockO>>

\* something that is not this edge answers the request with status 200
Other200(k) ==
    /\ link[k] = "dialed" /\ k \notin deadLinks
    /\ link' = [link EXCEPT ![k] = "other200"]
    /\ UNCHANGED <<workerVars, cSessions, closedO, rawOpenO, sessions, closedE, eHandlers,
                   deadLinks, nextId, panicked, evictedE, removedO, tockE, tockO>>

\* the accept loop of handleTunnel ends on the closed session:
\* removeSession(ss), sess.Close()
TunnelEnds(k) ==
    /\ k \in eHandlers /\ k \in closedE
    /\ sessions' = removeServerSession(sessions, k)
    /\ eHandlers' = eHandlers \ {k}
    /\ deadLinks' = deadLinks \cup {k}
    /\ UNCHANGED <<workerVars, cSessions, closedO, rawOpenO, closedE, link, nextId,
                   panicked, evictedE, removedO, tockE, tockO>>

\* Server.healthMonitor, one tick
HealthMonitor ==
    /\ sessions' = serverAlive(sessions, 1, 0, closedE)
    /\ evictedE' = Cardinality({i \in 1..Len(sessions) : sessions[i].id \in closedE})
    /\ tockE' = ~tockE
    /\ UNCHANGED <<workerVars, cSessions, closedO, rawOpenO, closedE, eHandlers, link,
                   deadLinks, nextId, panicked, removedO, tockO>>

\* the transport of connection k is cut (reset, middlebox, kill)
LinkDies(k) ==
    /\ link[k] # "none" /\ k \notin deadLinks
    /\ deadLinks' = deadLinks \cup {k}
    /\ UNCHANGED <<workerVars, cSessions, closedO, rawOpenO, sessions, closedE, eHandlers,
                   link, nextId, panicked, evictedE, removedO, tockE, tockO>>

\* a session notices that its transport is gone (read error, keepalive timeout)
SessionCloses(k, side) ==
    /\ k \in deadLinks
    /\ IF side = "edge"
       THEN /\ k \in eHandlers /\ k \notin closedE
            /\ closedE' = closedE \cup {k}
            /\ UNCHANGED closedO
       ELSE /\ \E w \in Workers : wPc[w] = "serve" /\ wSess[w] = k
            /\ k \notin closedO
            /\ closedO' = closedO \cup {k}
            /\ UNCHANGED closedE
    /\ UNCHANGED <<workerVars, cSessions, rawOpenO, sessions, eHandlers, link, deadLinks,
                   nextId, panicked, evictedE, removedO, tockE, tockO>>

\* empty pools, every worker at the top of its loop with one of the given
\* fail counts on one of the given paths
PoolFrom(pathSets, fails, idxs) ==
    /\ paths \in pathSets
    /\ wPc = [w \in Workers |-> "dial"]
    /\ wConn = [w \in Workers |-> "nil"]
    /\ wSess = [w \in Workers |-> 0]
    /\ failCount \in [Workers -> fails]
    /\ pathIdx \in [Workers -> {i \in idxs : i < Len(paths)}]
    /\ wSleep = [w \in Workers |-> NoSleep]
    /\ hsFailed = [w \in Workers |-> FALSE]
    /\ cSessions = <<>>
    /\ closedO = {}
    /\ rawOpenO = {}
    /\ sessions = <<>>
    /\ closedE = {}
    /\ eHandlers = {}
    /\ link = [k \in ConnIds |-> "none"]
    /\ deadLinks = {}
    /\ nextId = 1
    /\ panicked = FALSE
    /\ evictedE = 0
    /\ removedO = 0
    /\ tockE = FALSE
    /\ tockO = FALSE

\* both endpoints just started: empty pools, every worker about to dial
PoolStart(pathSets) == PoolFrom(pathSets, {0}, {0})

(***************************************************************************)
(* The origin's end of the mimicry handshake: ClientHandshakeWithStealth   *)
(* reads the response through a bufio.Reader and returns a bufferedConn    *)
(* whose Read goes through that reader (src/tls_fragment.go).              *)
(***************************************************************************)
\* the size of the buffer of bufio.NewReader
BufSize == 4096

CR == 13

LF == 10

VARIABLES
    resp,        \* the status code of the response the edge sends
    tunnel,      \* the bytes the edge sends after the response headers
    hPending,    \* bytes the edge has sent that have not arrived yet
    hSock,       \* bytes that arrived on conn and were not read yet
    br,          \* the unread bytes in the buffer of br
    hPc,         \* "reading" (in http.ReadResponse), "done", "failed"
    preRead,     \* history: the content of br when ClientHandshake returned
    hDelivered   \* history: the bytes Read on the returned conn has returned

handshakeVars == <<resp, tunnel, hPending, hSock, br, hPc, preRead, hDelivered>>

\* the response headers as bytes: a status line, then the empty line
ResponseHeader == <<72, CR, LF, CR, LF>>

\* the index in b of the last byte of the first empty line, 0 if there is none
headerEnd(b) ==
    LET ends == {i \in 4..Len(b) : SubSeq(b, i - 3, i) = <<CR, LF, CR, LF>>}
    IN  IF ends = {} THEN 0 ELSE CHOOSE i \in ends : \A j \in ends : i <= j

\* a Read that goes to the socket and leaves br alone
rawConnRead(buf, sk, n, k) ==
    LET m == Min(Min(k, n), Len(sk))
    IN  [out |-> Take(sk, m), buf |-> buf, sock |-> Drop(sk, m)]

\* bufferedConn.Read(p) = br.Read(p) with len(p) = n, when the next conn.Read
\* returns at most k bytes: [out, buf, sock]
bufferedConnRead(buf, sk, n, k) ==
    IF buf # <<>>
    THEN [out |-> Take(buf, Min(n, Len(buf))), buf |-> Drop(buf, Min(n, Len(buf))), sock |-> sk]
    ELSE IF n >= BufSize
    THEN LET m == Min(Min(k, n), Len(sk))
         IN  [out |-> Take(sk, m), buf |-> <<>>, sock |-> Drop(sk, m)]
    ELSE LET m == Min(Min(k, BufSize), Len(sk))
             b == Take(sk, m)
         IN  [out |-> Take(b, Min(n, m)), buf |-> Drop(b, Min(n, m)), sock |-> Drop(sk, m)]

\* k more bytes of the edge's output arrive
Arrive(k) ==
    /\ k \in 1..Len(hPending)
    /\ hSock' = hSock \o Take(hPending, k)
    /\ hPending' = Drop(hPending, k)
    /\ UNCHANGED <<resp, tunnel, br, hPc, preRead, hDelivered>>

\* http.ReadResponse(br, req): one fill of br from conn (k bytes); once the
\* empty line is in the buffer the headers are consumed and the status decides
ReadResponse(k) ==
    /\ hPc = "reading"
    /\ k \in 1..Min(Len(hSock), BufSize - Len(br))
    /\ hSock' = Drop(hSock, k)
    /\ LET b == br \o Take(hSock, k)
           e == headerEnd(b)
       IN  IF e = 0
           THEN /\ br' = b
                /\ UNCHANGED <<hPc, preRead>>
           ELSE IF ClientHandshake(resp).err
           THEN /\ br' = Drop(b, e)
                /\ hPc' = "failed"
                /\ UNCHANGED preRead
           ELSE /\ br' = Drop(b, e)
                /\ hPc' = "done"
                /\ preRead' = Drop(b, e)
    /\ UNCHANGED <<resp, tunnel, hPending, hDelivered>>

\* Read(p) on the conn ClientHandshake returned, len(p) = n; blocks while
\* neither br nor conn has a byte
BufferedRead(n, k) ==
    /\ hPc = "done"
    /\ br # <<>> \/ hSock # <<>>
    /\ k \in 1..Len(hSock) \/ (hSock = <<>> /\ k = 1)
    /\ LET r == bufferedConnRead(br, hSock, n, k)
       IN  /\ hDelivered' = hDelivered \o r.out
           /\ br' = r.buf
           /\ hSock' = r.sock
    /\ UNCHANGED <<resp, tunnel, hPending, hPc, preRead>>

\* len(p) of the Reads: a byte, the frame header of EncryptedConn, a large buffer
ReadSizes == {1, 4, BufSize}

TunnelBytes == {1, LF, CR}

\* the request was written; the edge answers with status st and then sends tn
HandshakeStart(statuses, tunnels) ==
    /\ resp \in statuses
    /\ tunnel \in tunnels
    /\ hPending = ResponseHeader \o tunnel
    /\ hSock = <<>>
    /\ br = <<>>
    /\ hPc = "reading"
    /\ preRead = <<>>
    /\ hDelivered = <<>>

(***************************************************************************)
(* Reverse UDP mapping on the edge: Server.startReverseUDP (src/server.go) *)
(* with its listener loop, its sweeper goroutine and one reader goroutine  *)
(* per flow.  Time is the Unix clock in seconds.                           *)
(***************************************************************************)
\* Advanced.UDPFlowTimeout, in seconds (default)
UDPFlowTimeout == 120

\* the period of the sweeper's ticker, in seconds
SweepInterval == 30

VARIABLES
    uNow,        \* time.Now().Unix()
    uNextSweep,  \* the time of the sweeper's next tick
    peers,       \* the map peers: per peer address the flow it maps to, 0 if none
    flows,       \* every udpPeer created so far: [peer, open, lastSeen, reader,
                 \* window]; window: the far end still grants send credit
    lnPc,        \* the listener loop: "recv", "write" (after mu.Unlock), or
                 \* "blocked" (inside p.stream.Write, waiting for credit)
    lnP,         \* the listener's p and the address of the datagram it holds
    uLastAct,    \* history: per peer the time of its last datagram or reply, -1 if none
    uLog,        \* history: the datagrams written, [peer, flow, at, open, gap, quiet]
    uForeign     \* history: a reader deleted a map entry that was not its own

udpVars == <<uNow, uNextSweep, peers, flows, lnPc, lnP, uLastAct, uLog, uForeign>>

\* the peer addresses that send datagrams
Peers == {1}

\* the seconds the clock advances in one step
ClockSteps == {10}

\* the flows of peer a whose substream is open
OpenFlows(a) == {f \in 1..Len(flows) : flows[f].peer = a /\ flows[f].open}

\* the sweeper's pass over the map: the flows it closes and deletes
Expired(now) ==
    {f \in 1..Len(flows) :
        /\ peers[flows[f].peer] = f
        /\ now - flows[f].lastSeen > UDPFlowTimeout}

\* the sweeper, one tick, under mu
Sweep ==
    /\ uNow = uNextSweep
    /\ uNextSweep' = uNextSweep + SweepInterval
    /\ flows' = [f \in 1..Len(flows) |->
                    IF f \in Expired(uNow) THEN [flows[f] EXCEPT !.open = FALSE]
                    ELSE flows[f]]
    /\ peers' = [a \in DOMAIN peers |->
                    IF peers[a] \in Expired(uNow) THEN 0 ELSE peers[a]]
    /\ UNCHANGED <<uNow, lnPc, lnP, uLastAct, uLog, uForeign>>

\* the listener loop from ReadFromUDP to mu.Unlock, for a datagram from a:
\* look the peer up, open a substream and start its reader if it has no entry
Recv(a, ok) ==
    /\ lnPc = "recv"
    /\ Len(uLog) < MaxPackets
    /\ IF peers[a] # 0
       THEN /\ lnPc' = "write"
            /\ lnP' = [p |-> peers[a], raddr |-> a]
            /\ UNCHANGED <<peers, flows>>
       ELSE IF ok /\ Len(flows) < MaxFlows
       THEN /\ flows' = Append(flows, [peer |-> a, open |-> TRUE, lastSeen |-> uNow,
                                       reader |-> "running", window |-> TRUE])
            /\ peers' = [peers EXCEPT ![a] = Len(flows) + 1]
            /\ lnPc' = "write"
            /\ lnP' = [p |-> Len(flows) + 1, raddr |-> a]
       ELSE UNCHANGED <<peers, flows, lnPc, lnP>>
    /\ UNCHANGED <<uNow, uNextSweep, uLastAct, uLog, uForeign>>

\* p.stream.Write of flow f would wait: the substream is open and has no credit
WouldBlock(f) == flows[f].open /\ ~flows[f].window

\* the listener loop after mu.Unlock: store lastSeen, p.stream.Write
WriteDatagram ==
    /\ lnPc = "write"
    /\ ~WouldBlock(lnP.p)
    /\ flows' = [flows EXCEPT ![lnP.p].lastSeen = uNow]
    /\ uLog' = Append(uLog, [peer |-> lnP.raddr, flow |-> lnP.p, at |-> uNow,
                             open |-> flows[lnP.p].open,
                             gap |-> IF \E i \in 1..Len(uLog) : uLog[i].peer = lnP.raddr
                                     THEN uNow - uLog[CHOOSE i \in 1..Len(uLog) :
                                                /\ uLog[i].peer = lnP.raddr
                                                /\ \A j \in (i + 1)..Len(uLog) :
                                                      uLog[j].peer # lnP.raddr].at
                                     ELSE -1,
                             quiet |-> IF uLastAct[lnP.raddr] < 0 THEN -1
                                       ELSE uNow - uLastAct[lnP.raddr]])
    /\ uLastAct' = [uLastAct EXCEPT ![lnP.raddr] = uNow]
    /\ lnPc' = "recv"
    /\ lnP' = [p |-> 0, raddr |-> 0]
    /\ UNCHANGED <<uNow, uNextSweep, peers, uForeign>>

\* the listener loop after mu.Unlock when the substream has no credit: store
\* lastSeen, then p.stream.Write waits (no deadline is set on the substream)
WriteBlocks ==
    /\ lnPc = "write"
    /\ WouldBlock(lnP.p)
    /\ flows' = [flows EXCEPT ![lnP.p].lastSeen = uNow]
    /\ uLastAct' = [uLastAct EXCEPT ![lnP.raddr] = uNow]
    /\ lnPc' = "blocked"
    /\ UNCHANGED <<uNow, uNextSweep, peers, lnP, uLog, uForeign>>

\* p.stream.Write returns at last: credit came, or the substream was closed
WriteResumes ==
    /\ lnPc = "blocked"
    /\ ~WouldBlock(lnP.p)
    /\ uLog' = Append(uLog, [peer |-> lnP.raddr, flow |-> lnP.p, at |-> uNow,
                             open |-> flows[lnP.p].open, gap |-> -1, quiet |-> -1])
    /\ lnPc' = "recv"
    /\ lnP' = [p |-> 0, raddr |-> 0]
    /\ UNCHANGED <<uNow, uNextSweep, peers, flows, uLastAct, uForeign>>

\* the far end of flow f stops reading (w = FALSE: its window fills up) or
\* reads again (w = TRUE)
Window(f, w) ==
    /\ f \in 1..Len(flows)
    /\ flows[f].open /\ flows[f].window # w
    /\ flows' = [flows EXCEPT ![f].window = w]
    /\ UNCHANGED <<uNow, uNextSweep, peers, lnPc, lnP, uLastAct, uLog, uForeign>>

\* the reader of flow f: p.stream.Read returns a reply, WriteToUDP, store lastSeen
Reply(f) ==
    /\ f \in 1..Len(flows)
    /\ flows[f].reader = "running" /\ flows[f].open
    /\ flows[f].lastSeen # uNow \/ uLastAct[flows[f].peer] # uNow
    /\ flows' = [flows EXCEPT ![f].lastSeen = uNow]
    /\ uLastAct' = [uLastAct EXCEPT ![flows[f].peer] = uNow]
    /\ UNCHANGED <<uNow, uNextSweep, peers, lnPc, lnP, uLog, uForeign>>

\* the reader of flow f: p.stream.Read fails on the closed substream, break
ReaderBreaks(f) ==
    /\ f \in 1..Len(flows)
    /\ flows[f].reader = "running" /\ ~flows[f].open
    /\ flows' = [flows EXCEPT ![f].reader = "exiting"]
    /\ UNCHANGED <<uNow, uNextSweep, peers, lnPc, lnP, uLastAct, uLog, uForeign>>

\* the reader of flow f after its loop: mu.Lock, delete(peers, raddr.String())
ReaderDeletes(f) ==
    /\ f \in 1..Len(flows)
    /\ flows[f].reader = "exiting"
    /\ flows' = [flows EXCEPT ![f].reader = "gone"]
    /\ peers' = [peers EXCEPT ![flows[f].peer] = 0]
    /\ uForeign' = (uForeign \/ peers[flows[f].peer] \notin {0, f})
    /\ UNCHANGED <<uNow, uNextSweep, lnPc, lnP, uLastAct, uLog>>

\* d seconds pass while every goroutine waits; the sweeper's tick is not skipped
Advance(d) ==
    /\ lnPc = "recv"
    /\ \A f \in 1..Len(flows) : flows[f].reader # "exiting"
    /\ \A f \in 1..Len(flows) : flows[f].reader = "running" => flows[f].open
    /\ uNow + d <= uNextSweep
    /\ uNow + d <= MaxTime
    /\ uNow' = uNow + d
    /\ UNCHANGED <<uNextSweep, peers, flows, lnPc, lnP, uLastAct, uLog, uForeign>>

\* startReverseUDP has bound the port: empty map, the sweeper's ticker started;
\* ps are the peer addresses that will send
UdpFrom(ps) ==
    /\ uNow = 0
    /\ uNextSweep = SweepInterval
    /\ peers = [a \in ps |-> 0]
    /\ flows = <<>>
    /\ lnPc = "recv"
    /\ lnP = [p |-> 0, raddr |-> 0]
    /\ uLastAct = [a \in ps |-> -1]
    /\ uLog = <<>>
    /\ uForeign = FALSE

UdpStart == UdpFrom(Peers)

(***************************************************************************)
(* Opening substreams: Server.openReverseStream for the reverse TCP and    *)
(* UDP mappings of the edge, Server.sendFakeData, and Client.OpenStream of *)
(* the origin.  Every caller has a record of its current call: what it     *)
(* picked and what it wrote on the substream.                              *)
(***************************************************************************)
VARIABLES
    MaxStreamsPerSession,   \* s.Config.Advanced.MaxStreamsPerSession
    poolIdx,                \* s.poolIdx
    rrIndex,                \* c.rrIndex
    oPc,                    \* per caller: its position
    cur,                    \* per caller: the record of its current (or last) call
    picks                   \* [ids, seq]: the sessions picked by the latest scans, in
                            \* order, that saw the same pool ids with AllQualify

openVars == <<MaxStreamsPerSession, poolIdx, rrIndex, oPc, cur, picks>>

\* the goroutines of the edge that call openReverseStream: two handlers of
\* accepted TCP connections and the listener loop of one UDP mapping
TcpHandlers == {1, 2}

UdpListener == 3

Openers == TcpHandlers \cup {UdpListener}

\* fakeTrafficLoop of the edge and the forward proxy of the origin
FakeLoop == 4

ForwardProxy == 5

Callers == Openers \cup {FakeLoop, ForwardProxy}

KindOf(o) ==
    IF o \in TcpHandlers THEN "tcp"
    ELSE IF o = UdpListener THEN "udp"
    ELSE IF o = FakeLoop THEN "fake"
    ELSE "forward"

\* the bytes of user payload relayed in one write
UserData == <<7>>

\* the call record at its beginning
NewCall(kind) ==
    [kind |-> kind, pick |-> 0, via |-> "none", err |-> "none", wrote |-> <<>>,
     stuck |-> FALSE, conn |-> IF kind = "tcp" THEN "open" ELSE "none"]

\* a handler that keeps the user connection when the call fails
returnKeepsConn(r, err) == [r EXCEPT !.err = err]

\* the call returns err: handleReverseTCPConn returns through its deferred
\* conn.Close(), the UDP listener goes on to the next datagram
returnError(r, err) ==
    [r EXCEPT !.err = err, !.conn = IF @ = "open" THEN "closed" ELSE @]

\* a scan that always starts at the first entry
RECURSIVE scanFromFirst(_, _, _, _, _)
scanFromFirst(ss, closed, startIdx, i, maxStreams) ==
    IF i >= Len(ss) THEN 0
    ELSE IF ss[i + 1].id \notin closed /\ ss[i + 1].streams < maxStreams THEN ss[i + 1].id
    ELSE scanFromFirst(ss, closed, startIdx, i + 1, maxStreams)

\* the loop of openReverseStream over s.sessions from startIdx: the id of
\* bestSS, 0 for nil
RECURSIVE scanPool(_, _, _, _, _)
scanPool(ss, closed, startIdx, i, maxStreams) ==
    IF i >= Len(ss) THEN 0
    ELSE LET idx == (startIdx + i) % Len(ss)
             e == ss[idx + 1]
         IN  IF e.id \in closed THEN scanPool(ss, closed, startIdx, i + 1, maxStreams)
             ELSE IF e.streams >= maxStreams
             THEN scanPool(ss, closed, startIdx, i + 1, maxStreams)
             ELSE e.id

\* the first open session, whatever its load
firstOpenSession(ss, closed) ==
    IF \E i \in 1..Len(ss) : ss[i].id \notin closed
    THEN ss[CHOOSE i \in 1..Len(ss) :
               /\ ss[i].id \notin closed
               /\ \A j \in 1..(i - 1) : ss[j].id \in closed].id
    ELSE 0

\* the loop of leastLoadedSession; best = 0 stands for nil, whose bestLoad is
\* above every load
RECURSIVE leastLoop(_, _, _, _, _)
leastLoop(ss, closed, i, best, bestLoad) ==
    IF i > Len(ss) THEN best
    ELSE IF ss[i].id \in closed THEN leastLoop(ss, closed, i + 1, best, bestLoad)
    ELSE IF best = 0 \/ ss[i].streams < bestLoad
    THEN leastLoop(ss, closed, i + 1, ss[i].id, ss[i].streams)
    ELSE leastLoop(ss, closed, i + 1, best, bestLoad)

\* Server.leastLoadedSession
leastLoadedSession(ss, closed) == leastLoop(ss, closed, 1, 0, 0)

\* atomic.AddInt64(&ss.streams, d) on the session with this id
addStreams(ss, id, d) ==
    [i \in 1..Len(ss) |-> IF ss[i].id = id THEN [ss[i] EXCEPT !.streams = @ + d] ELSE ss[i]]

\* OpenStream or a write on the session of that side on connection k can
\* succeed / can fail
CanWrite(side, k) == k \notin (IF side = "edge" THEN closedE ELSE closedO)

MayFail(side, k) == ~CanWrite(side, k) \/ k \in deadLinks

\* the target header openReverseStream writes for this kind of mapping
ReverseTarget(kind) == (IF kind = "udp" THEN UdpScheme ELSE TcpScheme) \o HostPort

\* openReverseStream writing the target header before the tag
headerThenTag(kind) ==
    <<PutUint16(Len((IF kind = "udp" THEN UdpScheme ELSE TcpScheme) \o HostPort))
         \o (IF kind = "udp" THEN UdpScheme ELSE TcpScheme) \o HostPort,
      <<StreamTypeReverse>> >>

\* the two writes of openReverseStream, in order
openWrites(kind) == <<<<StreamTypeReverse>>, TargetHeader(ReverseTarget(kind))>>

\* the two writes of sendFakeData, in order
fakeWrites(size) == <<<<StreamTypeFake>>, Fill(size, 0)>>

\* the three writes of Client.OpenStream and sendTarget, in order
forwardWrites(target) == <<<<StreamTypeForward>>, PutUint16(Len(target)), target>>

\* the size of the random payload of sendFakeData the model draws: the smallest
FakeSizes == {32}

poolRest == <<workerVars, cSessions, closedO, rawOpenO, eHandlers, link, nextId, panicked,
              evictedE, removedO, tockE, tockO>>

\* the call of opener o ends with an error; r is its record
Fails(o, r) ==
    /\ cur' = [cur EXCEPT ![o] = r]
    /\ oPc' = [oPc EXCEPT ![o] = "idle"]
    /\ IF KindOf(o) = "udp"
       THEN \E a \in Peers : peers[a] = 0 /\ Recv(a, FALSE)
       ELSE UNCHANGED udpVars

\* every entry of the pool is open and below the limit
AllQualify ==
    \A i \in 1..Len(sessions) :
       sessions[i].id \notin closedE /\ sessions[i].streams < MaxStreamsPerSession

\* the ids of s.sessions, in order
PoolIds == [i \in 1..Len(sessions) |-> sessions[i].id]

NoPicks == [ids |-> <<>>, seq |-> <<>>]

\* openReverseStream from RLock to RUnlock; with an empty pool the whole call.
\* Handlers of TCP connections are numbered in the order they are in use.
OpenBegin(o) ==
    /\ o \in Openers /\ oPc[o] = "idle" /\ poolIdx < MaxOpens
    /\ \A p \in TcpHandlers : (o \in TcpHandlers /\ p < o) => oPc[p] # "idle"
    /\ KindOf(o) = "udp" =>
          /\ lnPc = "recv" /\ Len(uLog) < MaxPackets
          /\ \E a \in Peers : peers[a] = 0
    /\ IF Len(sessions) = 0
       THEN /\ Fails(o, returnError(NewCall(KindOf(o)), "no sessions"))
            /\ picks' = NoPicks
            /\ UNCHANGED poolIdx
       ELSE LET best == scanPool(sessions, closedE, (poolIdx + 1) % Len(sessions), 0,
                                 MaxStreamsPerSession)
            IN  /\ poolIdx' = poolIdx + 1
                /\ cur' = [cur EXCEPT ![o] =
                              [NewCall(KindOf(o)) EXCEPT
                                  !.pick = best, !.via = IF best # 0 THEN "scan" ELSE "none"]]
                /\ picks' = IF ~AllQualify THEN NoPicks
                            ELSE IF picks.ids = PoolIds
                            THEN [picks EXCEPT !.seq = Append(@, best)]
                            ELSE [ids |-> PoolIds, seq |-> <<best>>]
                /\ oPc' = [oPc EXCEPT ![o] = IF best = 0 THEN "least" ELSE "open"]
                /\ UNCHANGED udpVars
    /\ UNCHANGED <<MaxStreamsPerSession, rrIndex, poolVars>>

\* openReverseStream with bestSS == nil: leastLoadedSession
OpenLeast(o) ==
    /\ oPc[o] = "least"
    /\ LET best == leastLoadedSession(sessions, closedE)
           r == [cur[o] EXCEPT !.pick = best, !.via = IF best # 0 THEN "least" ELSE "none"]
       IN  IF best = 0
           THEN Fails(o, returnError(r, "all sessions full"))
           ELSE /\ cur' = [cur EXCEPT ![o] = r]
                /\ oPc' = [oPc EXCEPT ![o] = "open"]
                /\ UNCHANGED udpVars
    /\ UNCHANGED <<MaxStreamsPerSession, poolIdx, rrIndex, picks, poolVars>>

\* the rest of openReverseStream: bestSS.sess.OpenStream() (on an error
\* removeSession, sess.Close(), return), streams++, the write of the tag and
\* the write of the header (on an error stream.Close(), streams--, return).
\* j of these three steps succeed.
OpenFinish(o, j) ==
    /\ oPc[o] = "open"
    /\ LET k == cur[o].pick
           w == openWrites(KindOf(o))
       IN  /\ j > 0 => CanWrite("edge", k)
           /\ j < 3 => MayFail("edge", k)
           /\ IF j = 0
              THEN /\ sessions' = removeServerSession(sessions, k)
                   /\ closedE' = closedE \cup {k}
                   /\ deadLinks' = deadLinks \cup {k}
                   /\ Fails(o, returnError(cur[o], "open stream"))
              ELSE IF j < 3
              THEN /\ Fails(o, returnError([cur[o] EXCEPT !.wrote = Concat(Take(w, j - 1)),
                                                          !.stuck = TRUE], "write"))
                   /\ UNCHANGED <<sessions, closedE, deadLinks>>
              ELSE /\ sessions' = addStreams(sessions, k, 1)
                   /\ cur' = [cur EXCEPT ![o].wrote = Concat(w)]
                   /\ UNCHANGED <<closedE, deadLinks>>
                   /\ IF KindOf(o) = "tcp"
                      THEN oPc' = [oPc EXCEPT ![o] = "relay"] /\ UNCHANGED udpVars
                      ELSE /\ oPc' = [oPc EXCEPT ![o] = "uwrite"]
                           /\ \E a \in Peers : peers[a] = 0 /\ Recv(a, TRUE)
    /\ UNCHANGED <<MaxStreamsPerSession, poolIdx, rrIndex, picks, poolRest>>

\* relay copies bytes of the user connection to the substream
RelayData(o) ==
    /\ oPc[o] = "relay"
    /\ CanWrite("edge", cur[o].pick)
    /\ cur' = [cur EXCEPT ![o].wrote = @ \o UserData]
    /\ oPc' = [oPc EXCEPT ![o] = "relayed"]
    /\ UNCHANGED <<MaxStreamsPerSession, poolIdx, rrIndex, picks, poolVars, udpVars>>

\* relay returns: the deferred stream.Close(), streams--, conn.Close()
RelayEnds(o) ==
    /\ oPc[o] \in {"relay", "relayed"}
    /\ sessions' = addStreams(sessions, cur[o].pick, -1)
    /\ cur' = [cur EXCEPT ![o].conn = "closed"]
    /\ oPc' = [oPc EXCEPT ![o] = "idle"]
    /\ UNCHANGED <<MaxStreamsPerSession, poolIdx, rrIndex, picks, closedE, deadLinks,
                   poolRest, udpVars>>

\* a datagram of a peer that has an entry: no call, p is the entry
RecvKnown(o) ==
    /\ KindOf(o) = "udp" /\ oPc[o] = "idle"
    /\ \E a \in Peers : peers[a] # 0 /\ Recv(a, TRUE)
    /\ oPc' = [oPc EXCEPT ![o] = "uwrite"]
    /\ UNCHANGED <<MaxStreamsPerSession, poolIdx, rrIndex, cur, picks, poolVars>>

\* the listener after mu.Unlock: p.stream.Write(buf[:n]), its error ignored
UdpWrite(o, ok) ==
    /\ oPc[o] = "uwrite"
    /\ WriteDatagram
    /\ ok => CanWrite("edge", cur[o].pick) /\ ~cur[o].stuck
    /\ ~ok => MayFail("edge", cur[o].pick) \/ cur[o].stuck
    /\ cur' = IF ok THEN [cur EXCEPT ![o].wrote = @ \o UserData]
              ELSE [cur EXCEPT ![o].stuck = TRUE]
    /\ oPc' = [oPc EXCEPT ![o] = "idle"]
    /\ UNCHANGED <<MaxStreamsPerSession, poolIdx, rrIndex, picks, poolVars>>

\* fakeTrafficLoop, one tick for session k that is open and has fewer than 3
\* substreams: sendFakeData, whose first j writes succeed
SendFake(k, j, size) ==
    /\ \E i \in 1..Len(sessions) : sessions[i].id = k /\ sessions[i].streams < 3
    /\ k \notin closedE
    /\ j < 2 => MayFail("edge", k)
    /\ cur' = [cur EXCEPT ![FakeLoop] =
                  [NewCall("fake") EXCEPT !.pick = k, !.stuck = j < 2,
                                          !.wrote = Concat(Take(fakeWrites(size), j))]]
    /\ UNCHANGED <<MaxStreamsPerSession, poolIdx, rrIndex, oPc, picks, poolVars, udpVars>>

\* a loop that also removes the sessions it finds closed
RECURSIVE clientLoopEvictsClosed(_, _, _, _, _, _)
clientLoopEvictsClosed(snap, closed, failing, idx, i, errs) ==
    IF i >= Len(snap) THEN [pick |-> 0, errs |-> errs]
    ELSE LET p == snap[((idx + i) % Len(snap)) + 1]
         IN  IF p \in closed \/ p \in failing
             THEN clientLoopEvictsClosed(snap, closed, failing, idx, i + 1, errs \cup {p})
             ELSE [pick |-> p, errs |-> errs]

\* the loop of Client.OpenStream over its copy of c.sessions: the session the
\* substream is opened on (0: none) and the sessions whose OpenStream failed
RECURSIVE clientLoop(_, _, _, _, _, _)
clientLoop(snap, closed, failing, idx, i, errs) ==
    IF i >= Len(snap) THEN [pick |-> 0, errs |-> errs]
    ELSE LET p == snap[((idx + i) % Len(snap)) + 1]
         IN  IF p \in closed THEN clientLoop(snap, closed, failing, idx, i + 1, errs)
             ELSE IF p \in failing
             THEN clientLoop(snap, closed, failing, idx, i + 1, errs \cup {p})
             ELSE [pick |-> p, errs |-> errs]

\* c.removeSession for each of ids
RECURSIVE removeSessions(_, _)
removeSessions(list, ids) ==
    IF ids = {} THEN list
    ELSE LET k == CHOOSE x \in ids : TRUE
         IN  removeSessions(removeSession(list, k), ids \ {k})

\* Client.OpenStream(target): OpenStream fails on the sessions in failing, the
\* first j of the three writes succeed; the stream is returned in any case
ClientOpenStream(target, failing, j) ==
    /\ ~panicked
    /\ rrIndex < MaxOpens
    /\ IF Len(cSessions) = 0
       THEN /\ cur' = [cur EXCEPT ![ForwardProxy] =
                          [NewCall("forward") EXCEPT !.err = "no active session"]]
            /\ UNCHANGED <<rrIndex, cSessions>>
       ELSE LET r == clientLoop(cSessions, closedO, failing, rrIndex + 1, 0, {})
            IN  /\ rrIndex' = rrIndex + 1
                /\ cSessions' = removeSessions(cSessions, r.errs)
                /\ IF r.pick = 0
                   THEN cur' = [cur EXCEPT ![ForwardProxy] =
                                   [NewCall("forward") EXCEPT !.err = "all sessions dead"]]
                   ELSE /\ j < 3 => MayFail("origin", r.pick)
                        /\ cur' = [cur EXCEPT ![ForwardProxy] =
                                      [NewCall("forward") EXCEPT
                                          !.pick = r.pick, !.via = "scan", !.stuck = j < 3,
                                          !.wrote = Concat(Take(forwardWrites(target), j))]]
    /\ UNCHANGED <<MaxStreamsPerSession, poolIdx, oPc, picks, udpVars>>
    /\ UNCHANGED <<workerVars, closedO, rawOpenO, sessions, closedE, eHandlers, link,
                   deadLinks, nextId, panicked, evictedE, removedO, tockE, tockO>>

\* the caller of Client.OpenStream copies user bytes to the returned stream
ForwardData ==
    /\ cur[ForwardProxy].pick # 0
    /\ ~cur[ForwardProxy].stuck
    /\ CanWrite("origin", cur[ForwardProxy].pick)
    /\ Len(cur[ForwardProxy].wrote) = Len(Concat(forwardWrites(HostPort)))
    /\ cur' = [cur EXCEPT ![ForwardProxy].wrote = @ \o UserData]
    /\ UNCHANGED <<MaxStreamsPerSession, poolIdx, rrIndex, oPc, picks, poolVars, udpVars>>

\* the tunnels of workers 1..n are established and serve; nothing else happened
PoolEstablished(n) ==
    /\ paths = <<3000>>
    /\ wPc = [w \in Workers |-> IF w <= n THEN "serve" ELSE "dial"]
    /\ wConn = [w \in Workers |-> IF w <= n THEN ClientHandshake(101).conn ELSE "nil"]
    /\ wSess = [w \in Workers |-> IF w <= n THEN w ELSE 0]
    /\ failCount = [w \in Workers |-> 0]
    /\ pathIdx = [w \in Workers |-> 0]
    /\ wSleep = [w \in Workers |-> NoSleep]
    /\ hsFailed = [w \in Workers |-> FALSE]
    /\ cSessions = [i \in 1..n |-> i]
    /\ closedO = {}
    /\ rawOpenO = 1..n
    /\ sessions = [i \in 1..n |-> [id |-> i, streams |-> 0]]
    /\ closedE = {}
    /\ eHandlers = 1..n
    /\ link = [k \in ConnIds |-> IF k <= n THEN "accepted" ELSE "none"]
    /\ deadLinks = {}
    /\ nextId = n + 1
    /\ panicked = FALSE
    /\ evictedE = 0
    /\ removedO = 0
    /\ tockE = FALSE
    /\ tockO = FALSE

\* nobody has opened a substream
OpenStart(limits) ==
    /\ MaxStreamsPerSession \in limits
    /\ poolIdx = 0
    /\ rrIndex = 0
    /\ oPc = [o \in Callers |-> "idle"]
    /\ cur = [o \in Callers |-> NewCall(KindOf(o))]
    /\ picks = NoPicks

(***************************************************************************)
(* relay (src/server.go): two io.CopyBuffer goroutines between the user    *)
(* connection and the substream of a TCP mapping.  Direction "up" copies   *)
(* from the user connection to the substream, "down" the other way.  A     *)
(* Write hands over as many bytes as the receiving side grants credit for  *)
(* and waits with the rest.                                                *)
(***************************************************************************)
\* the credit window of a destination, in bytes
RelayWindow == 2

VARIABLES
    rSrc,       \* per direction: the bytes its source will still deliver
    rRead,      \* per direction, history: the bytes src.Read has returned
    rBuf,       \* per direction: the part of buf that dst.Write has yet to write
    rDst,       \* per direction: the bytes written to its destination
    rCredit,    \* per direction: the bytes its destination accepts right now
    rPc,        \* per direction: "read", "write" or "done"
    rOpen       \* neither end has been closed

relayVars == <<rSrc, rRead, rBuf, rDst, rCredit, rPc, rOpen>>

Dirs == {"up", "down"}

\* a Write that gives up on what the credit does not cover
copyWriteOrDrop(buf, credit) ==
    [out |-> Take(buf, Min(Len(buf), credit)), rest |-> <<>>]

\* dst.Write(buf[0:nr]) with the given credit: the bytes that go out now, in
\* order, and the bytes the call still holds
copyWrite(buf, credit) ==
    [out |-> Take(buf, Min(Len(buf), credit)), rest |-> Drop(buf, Min(Len(buf), credit))]

\* io.CopyBuffer: nr, er := src.Read(buf) with nr = n > 0
CopyRead(d, n) ==
    /\ rOpen /\ rPc[d] = "read" /\ rSrc[d] # <<>>
    /\ rBuf' = [rBuf EXCEPT ![d] = Take(rSrc[d], n)]
    /\ rRead' = [rRead EXCEPT ![d] = @ \o Take(rSrc[d], n)]
    /\ rSrc' = [rSrc EXCEPT ![d] = Drop(@, n)]
    /\ rPc' = [rPc EXCEPT ![d] = "write"]
    /\ UNCHANGED <<rDst, rCredit, rOpen>>

\* io.CopyBuffer: dst.Write(buf[0:nr]) makes progress; it returns when all of
\* buf[0:nr] is written
CopyWrite(d) ==
    /\ rOpen /\ rPc[d] = "write"
    /\ LET w == copyWrite(rBuf[d], rCredit[d])
       IN  /\ w.out # <<>> \/ w.rest # rBuf[d]
           /\ rDst' = [rDst EXCEPT ![d] = @ \o w.out]
           /\ rBuf' = [rBuf EXCEPT ![d] = w.rest]
           /\ rCredit' = [rCredit EXCEPT ![d] = @ - Len(w.out)]
           /\ rPc' = [rPc EXCEPT ![d] = IF w.rest = <<>> THEN "read" ELSE "write"]
    /\ UNCHANGED <<rSrc, rRead, rOpen>>

\* the reader behind destination d has consumed what was written: credit returns
Grant(d) ==
    /\ rOpen /\ rCredit[d] < RelayWindow
    /\ rCredit' = [rCredit EXCEPT ![d] = RelayWindow]
    /\ UNCHANGED <<rSrc, rRead, rBuf, rDst, rPc, rOpen>>

\* src.Read returns EOF or an error: cp sends on done, relay closes both ends
CopyEnds(d) ==
    /\ rOpen /\ rPc[d] = "read"
    /\ rPc' = [rPc EXCEPT ![d] = "done"]
    /\ rOpen' = FALSE
    /\ UNCHANGED <<rSrc, rRead, rBuf, rDst, rCredit>>

\* the other goroutine's Read or Write fails on the closed ends
CopyAborts(d) ==
    /\ ~rOpen /\ rPc[d] # "done"
    /\ rPc' = [rPc EXCEPT ![d] = "done"]
    /\ UNCHANGED <<rSrc, rRead, rBuf, rDst, rCredit, rOpen>>

\* relay(conn, stream) starts with the given bytes to come from either end
RelayStart(ups, downs) ==
    /\ rSrc \in {[d \in Dirs |-> IF d = "up" THEN u ELSE w] : u \in ups, w \in downs}
    /\ rRead = [d \in Dirs |-> <<>>]
    /\ rBuf = [d \in Dirs |-> <<>>]
    /\ rDst = [d \in Dirs |-> <<>>]
    /\ rCredit = [d \in Dirs |-> RelayWindow]
    /\ rPc = [d \in Dirs |-> "read"]
    /\ rOpen = TRUE

(***************************************************************************)
(* The edge's HTTP front (src/server.go): the ServeMux of listenOnPort,    *)
(* validateRequest and writeDecoy.  A host is its sequence of labels (or   *)
(* an IP literal), a path its sequence of segments, a header value its     *)
(* sequence of tokens.                                                     *)
(***************************************************************************)
VARIABLES
    mimic,      \* s.Mimic: [FakeDomain, prefix]; FakeDomain <<>> when not configured
    hReq,       \* the request served last
    hResp       \* the response written for it

decoyVars == <<mimic, hReq, hResp>>

\* strings.ToLower on the header tokens that occur
ToLower(t) ==
    CASE t = "WebSocket" -> "websocket"
      [] t = "Upgrade" -> "upgrade"
      [] OTHER -> t

\* strings.Contains(strings.ToLower(value), token)
ContainsFold(value, token) == \E i \in 1..Len(value) : ToLower(value[i]) = token

\* strings.HasSuffix(host, "." + domain)
IsSubdomain(host, domain) ==
    /\ Len(host) > Len(domain)
    /\ SubSeq(host, Len(host) - Len(domain) + 1, Len(host)) = domain

\* the response of writeDecoy
Decoy == [status |-> 404, server |-> "nginx/1.24.0", body |-> "404 Not Found"]

\* the 101 Switching Protocols written by handleTunnel
Switching == [status |-> 101, server |-> "", body |-> ""]

\* the answer of a handler that names the method it does not allow
MethodNotAllowed == [status |-> 405, server |-> "", body |-> "Method Not Allowed"]

\* a validateRequest that answers a non-GET request with 405
validateRequestNaming(m, r) ==
    IF r.method # "GET" THEN [ok |-> FALSE, resp |-> MethodNotAllowed]
    ELSE IF /\ m.FakeDomain # <<>>
            /\ r.host.labels # m.FakeDomain /\ ~IsSubdomain(r.host.labels, m.FakeDomain)
            /\ ~r.host.ip
    THEN [ok |-> FALSE, resp |-> Decoy]
    ELSE IF ~ContainsFold(r.upgrade, "websocket") \/ ~ContainsFold(r.connection, "upgrade")
    THEN [ok |-> FALSE, resp |-> Decoy]
    ELSE [ok |-> TRUE, resp |-> Switching]

\* Server.validateRequest: [ok, resp], resp being what it wrote when not ok
validateRequest(m, r) ==
    IF r.method # "GET" THEN [ok |-> FALSE, resp |-> Decoy]
    ELSE IF /\ m.FakeDomain # <<>>
            /\ r.host.labels # m.FakeDomain /\ ~IsSubdomain(r.host.labels, m.FakeDomain)
            /\ ~r.host.ip
    THEN [ok |-> FALSE, resp |-> Decoy]
    ELSE IF ~ContainsFold(r.upgrade, "websocket") \/ ~ContainsFold(r.connection, "upgrade")
    THEN [ok |-> FALSE, resp |-> Decoy]
    ELSE [ok |-> TRUE, resp |-> Switching]

\* the ServeMux of listenOnPort: the pattern prefix goes to handleTunnel (the
\* subtree below it when it ends in a slash, the one path otherwise), "/" to
\* handleDecoy
muxHandler(m, path) ==
    IF m.prefix.subtree
    THEN IF Len(path) > Len(m.prefix.segs) /\ SubSeq(path, 1, Len(m.prefix.segs)) = m.prefix.segs
         THEN "handleTunnel" ELSE "handleDecoy"
    ELSE IF path = m.prefix.segs THEN "handleTunnel" ELSE "handleDecoy"

\* what the edge answers to request r: handleDecoy, or handleTunnel up to the 101
serveHTTP(m, r) ==
    IF muxHandler(m, r.path) = "handleDecoy" THEN [ok |-> FALSE, resp |-> Decoy]
    ELSE validateRequest(m, r)

\* the edge serves request r on connection k
ServeRequest(k, r) ==
    /\ HandleTunnel(k, serveHTTP(mimic, r).ok)
    /\ hReq' = r
    /\ hResp' = serveHTTP(mimic, r).resp
    /\ UNCHANGED mimic

\* hosts: the fake domain, a subdomain of it, a name that merely ends like it,
\* another name, an IP literal
FakeDomain == <<"example", "com">>

Hosts ==
    {[labels |-> FakeDomain, ip |-> FALSE],
     [labels |-> <<"www">> \o FakeDomain, ip |-> FALSE],
     [labels |-> <<"notexample", "com">>, ip |-> FALSE],
     [labels |-> <<"10.0.0.1">>, ip |-> TRUE]}

\* paths /search, /api/7, /other and /
Paths == {<<"search">>, <<"api", "7">>, <<"other">>, <<>>}

Requests ==
    [method : {"GET", "POST"},
     host : Hosts,
     upgrade : {<<"WebSocket">>, <<"websocket">>, <<>>},
     connection : {<<"keep-alive", "Upgrade">>, <<"keep-alive">>},
     path : Paths]

\* fake_path /search and /api/{id}, with and without a fake domain
Mimics ==
    [FakeDomain : {<<>>, FakeDomain},
     prefix : {[segs |-> <<"search">>, subtree |-> FALSE],
               [segs |-> <<"api">>, subtree |-> TRUE]}]

NoRequest ==
    [method |-> "", host |-> [labels |-> <<>>, ip |-> FALSE], upgrade |-> <<>>,
     connection |-> <<>>, path |-> <<>>]

\* the listeners are up and no request has been served
DecoyStart(ms) ==
    /\ mimic \in ms
    /\ hReq = NoRequest
    /\ hResp = [status |-> 0, server |-> "", body |-> ""]

(***************************************************************************)
(* The packet sizes of one EncryptedConn.Write with burst splitting on     *)
(* (src/unnamed/part_000): Write and burstWrite with the plaintext reduced *)
(* to its length.                                                          *)
(***************************************************************************)
VARIABLES
    bMax,       \* c.stealth.MaxBurstSize
    bLen,       \* len(data) of the Write
    bLeft,      \* len(remaining)
    bCount,     \* history: packets written so far
    bLast,      \* history: plaintext bytes of the last packet, 0 if none
    bMinPrev,   \* history: the smallest packet before the last one, 0 if none
    bMaxPrev,   \* history: the largest packet before the last one, 0 if none
    bPc         \* "call", "burst", "done"

sizeVars == <<bMax, bLen, bLeft, bCount, bLast, bMinPrev, bMaxPrev, bPc>>

\* the draws of secureRandInt(n) the model follows: both ends of the range,
\* their neighbours and the middle
SomeDraws(n) == {r \in secureRandInt(n) : r \in {0, 1, n \div 2, n - 2, n - 1}}

\* a packet of sz plaintext bytes goes out
Emits(sz) ==
    /\ bCount' = bCount + 1
    /\ bLast' = sz
    /\ bMinPrev' = IF bCount = 0 THEN 0 ELSE IF bCount = 1 THEN bLast ELSE Min(bMinPrev, bLast)
    /\ bMaxPrev' = IF bMaxPrev > bLast THEN bMaxPrev ELSE bLast

\* EncryptedConn.Write: the burst path for len(data) > MaxBurstSize, else one
\* writePacket
WriteSizes ==
    /\ bPc = "call"
    /\ IF bLen > bMax
       THEN /\ bPc' = "burst"
            /\ UNCHANGED <<bLeft, bCount, bLast, bMinPrev, bMaxPrev>>
       ELSE /\ Emits(bLen)
            /\ bLeft' = 0
            /\ bPc' = "done"
    /\ UNCHANGED <<bMax, bLen>>

\* one iteration of the loop of burstWrite
BurstSizes ==
    /\ bPc = "burst"
    /\ LET maxBurst == IF bMax <= 0 THEN 4096 ELSE bMax
       IN  \E r \in SomeDraws(maxBurst - 512 + 1) :
              LET chunkSize == burstChunkSize(r, bLeft)
              IN  /\ Emits(chunkSize)
                  /\ bLeft' = bLeft - chunkSize
                  /\ bPc' = IF bLeft - chunkSize > 0 THEN "burst" ELSE "done"
    /\ UNCHANGED <<bMax, bLen>>

\* a Write of one of the given [len, max] is about to be made
SizeStart(cases) ==
    /\ \E c \in cases : bLen = c.len /\ bMax = c.max
    /\ bLeft = bLen
    /\ bCount = 0
    /\ bLast = 0
    /\ bMinPrev = 0
    /\ bMaxPrev = 0
    /\ bPc = "call"

(***************************************************************************)
(* FragmentedConn (src/tls_fragment.go): the connection DialFragmented     *)
(* returns, its Write calls and the writes they make on the wrapped        *)
(* connection.                                                             *)
(***************************************************************************)
VARIABLES
    fragmentSize,   \* c.fragmentSize, drawn by DialFragmented
    firstWrite,     \* c.firstWrite
    fQueue,         \* the byte strings the caller will hand to Write, in order
    fPc,            \* "idle", or "sleep" between the two fragments
    fCur,           \* the Write in progress: [data, n1]
    fConn,          \* "open" or "closed": the wrapped connection
    fOut,           \* history: per finished Write, [data, outs, n, err], where
                    \* outs are the buffers handed to c.Conn.Write, in order
    fRes            \* what the last Write returned, [n, err]

fragVars == <<fragmentSize, firstWrite, fQueue, fPc, fCur, fConn, fOut, fRes>>

\* DialFragmented: the fragment sizes it may draw under a FragmentConfig
fragSizes(c) ==
    LET minSize == IF c.MinSize <= 0 THEN 64 ELSE c.MinSize
        maxSize == IF c.MaxSize <= 0 THEN 191 ELSE c.MaxSize
        diff == maxSize - minSize
    IN  IF diff > 0 THEN {minSize + r : r \in secureRandInt(diff + 1)} ELSE {minSize}

\* the condition of Write under which b passes through whole
passesThrough(first, b, size) == first \/ Len(b) <= size

\* a Write returns
FragReturns(data, outs, n, err) ==
    /\ fOut' = Append(fOut, [data |-> data, outs |-> outs, n |-> n, err |-> err])
    /\ fRes' = [n |-> n, err |-> err]

\* FragmentedConn.Write up to its return or to the sleep between the fragments
FragWrite ==
    /\ fPc = "idle" /\ fQueue # <<>>
    /\ fQueue' = Tail(fQueue)
    /\ firstWrite' = TRUE
    /\ LET b == Head(fQueue) IN
         IF passesThrough(firstWrite, b, fragmentSize)
         THEN /\ IF fConn = "open" THEN FragReturns(b, <<b>>, Len(b), "nil")
                 ELSE FragReturns(b, <<>>, 0, "conn")
              /\ UNCHANGED <<fPc, fCur>>
         ELSE IF fConn = "open"
              THEN /\ fPc' = "sleep"
                   /\ fCur' = [data |-> b, n1 |-> fragmentSize]
                   /\ UNCHANGED <<fOut, fRes>>
              ELSE /\ FragReturns(b, <<>>, 0, "conn")
                   /\ UNCHANGED <<fPc, fCur>>
    /\ UNCHANGED <<fragmentSize, fConn>>

\* FragmentedConn.Write after the sleep: the second fragment
FragRest ==
    /\ fPc = "sleep"
    /\ LET frag1 == Take(fCur.data, fragmentSize)
           frag2 == Drop(fCur.data, fragmentSize)
       IN  IF fConn = "open"
           THEN FragReturns(fCur.data, <<frag1, frag2>>, fCur.n1 + Len(frag2), "nil")
           ELSE FragReturns(fCur.data, <<frag1>>, fCur.n1, "conn")
    /\ fPc' = "idle"
    /\ fCur' = [data |-> <<>>, n1 |-> 0]
    /\ UNCHANGED <<fragmentSize, firstWrite, fQueue, fConn>>

\* the wrapped connection fails or is closed by the peer
FragConnDies ==
    /\ fConn = "open"
    /\ fConn' = "closed"
    /\ UNCHANGED <<fragmentSize, firstWrite, fQueue, fPc, fCur, fOut, fRes>>

\* the state after DialFragmented under one of the configurations, with one of
\* the given sequences of writes to come
FragStart(cs, queues) ==
    /\ \E c \in cs : fragmentSize \in fragSizes(c)
    /\ firstWrite = FALSE
    /\ fQueue \in queues
    /\ fPc = "idle"
    /\ fCur = [data |-> <<>>, n1 |-> 0]
    /\ fConn = "open"
    /\ fOut = <<>>
    /\ fRes = [n |-> 0, err |-> "nil"]

(***************************************************************************)
(* The counter streams of one pool entry of the edge (src/server.go) and   *)
(* the substreams counted on it: those handleStream accepts and those      *)
(* openReverseStream opens for handleReverseTCPConn and startReverseUDP.   *)
(***************************************************************************)
VARIABLES
    ssStreams,  \* ss.streams
    sub,        \* per substream: [kind, st, decs, fin, reader, inMap]
                \*   kind: "none", "accepted", "tcp", "udp"
                \*   st: "none", "open", or "closed" once this end called Close
                \*   decs: history, the decrements made for it
                \*   fin: the origin has closed its end
                \*   reader: of a UDP flow, "none", "running", "gone"
                \*   inMap: the UDP flow is in peers
    ssBroken    \* the session of the entry has lost its connection

acctVars == <<ssStreams, sub, ssBroken>>

\* the substreams one entry sees in the model
SubIds == 1..MaxFlows

NoSub == [kind |-> "none", st |-> "none", decs |-> 0, fin |-> FALSE,
          reader |-> "none", inMap |-> FALSE]

\* the deferred function of a handler: stream.Close() and streams--
closeAndDecrement(r) == [r EXCEPT !.st = "closed", !.decs = @ + 1]

\* the reader goroutine of a UDP flow when p.stream.Read fails: streams--,
\* delete(peers, ...); it does not call p.stream.Close()
readerLeaves(r) == [r EXCEPT !.decs = @ + 1, !.reader = "gone", !.inMap = FALSE]

\* handleStream starts on an accepted substream: streams++
AcctAccept(s) ==
    /\ sub[s].kind = "none" /\ ~ssBroken
    /\ sub' = [sub EXCEPT ![s] = [NoSub EXCEPT !.kind = "accepted", !.st = "open"]]
    /\ ssStreams' = ssStreams + 1
    /\ UNCHANGED ssBroken

\* handleStream returns, whatever the reason: streams--, stream.Close()
AcctHandled(s) ==
    /\ sub[s].kind = "accepted" /\ sub[s].st = "open"
    /\ sub' = [sub EXCEPT ![s] = closeAndDecrement(@)]
    /\ ssStreams' = ssStreams - 1
    /\ UNCHANGED ssBroken

\* openReverseStream on this entry for a TCP or UDP mapping; j of OpenStream,
\* the write of the tag and the write of the header succeed.  After a failed
\* write the substream is closed and the increment is taken back.
AcctOpen(s, kind, j) ==
    /\ sub[s].kind = "none"
    /\ j < 3 => ssBroken
    /\ IF j = 0 THEN UNCHANGED <<sub, ssStreams>>
       ELSE IF j < 3
       THEN /\ sub' = [sub EXCEPT ![s] =
                          closeAndDecrement([NoSub EXCEPT !.kind = kind, !.st = "open"])]
            /\ ssStreams' = (ssStreams + 1) - 1
       ELSE /\ sub' = [sub EXCEPT ![s] =
                          [NoSub EXCEPT !.kind = kind, !.st = "open",
                                        !.reader = IF kind = "udp" THEN "running" ELSE "none",
                                        !.inMap = kind = "udp"]]
            /\ ssStreams' = ssStreams + 1
    /\ UNCHANGED ssBroken

\* relay returns in handleReverseTCPConn: stream.Close(), streams--
AcctRelayEnds(s) ==
    /\ sub[s].kind = "tcp" /\ sub[s].st = "open"
    /\ sub' = [sub EXCEPT ![s] = closeAndDecrement(@)]
    /\ ssStreams' = ssStreams - 1
    /\ UNCHANGED ssBroken

\* the sweeper finds the flow expired: p.stream.Close(), delete(peers, k)
AcctSweep(s) ==
    /\ sub[s].kind = "udp" /\ sub[s].inMap
    /\ sub' = [sub EXCEPT ![s].st = "closed", ![s].inMap = FALSE]
    /\ UNCHANGED <<ssStreams, ssBroken>>

\* the origin closes its end of the substream (its dial failed, or its relay
\* ended)
AcctPeerCloses(s) ==
    /\ sub[s].st = "open" /\ ~sub[s].fin
    /\ sub' = [sub EXCEPT ![s].fin = TRUE]
    /\ UNCHANGED <<ssStreams, ssBroken>>

\* p.stream.Read of the reader goroutine returns an error: the substream was
\* closed by the sweeper or by the origin, or the session is gone
AcctReaderLeaves(s) ==
    /\ sub[s].reader = "running"
    /\ sub[s].st = "closed" \/ sub[s].fin \/ ssBroken
    /\ sub' = [sub EXCEPT ![s] = readerLeaves(@)]
    /\ ssStreams' = ssStreams - 1
    /\ UNCHANGED ssBroken

\* the connection of the session is lost
AcctBreaks ==
    /\ ~ssBroken
    /\ ssBroken' = TRUE
    /\ UNCHANGED <<ssStreams, sub>>

\* a new entry: addSession has appended it with streams = 0
AcctStart ==
    /\ ssStreams = 0
    /\ sub = [s \in SubIds |-> NoSub]
    /\ ssBroken = FALSE

(***************************************************************************)
(* Datagrams of one UDP flow through its substream.  The edge writes each  *)
(* datagram of the peer to the substream as it is (startReverseUDP,        *)
(* src/server.go) and the origin copies the substream to its UDP socket    *)
(* with relay (src/unnamed/part_002, src/server.go); replies go the other  *)
(* way.  One Write on a UDP socket is one datagram.  A Read on the         *)
(* substream returns some of the bytes that are waiting, at least one: the *)
(* substream is a byte stream, which keeps the order of the bytes and not  *)
(* the ends of the writes.                                                 *)
(***************************************************************************)
VARIABLES
    gDir,      \* "up": peer to target, "down": target to peer
    gQueue,    \* the datagrams that have not arrived at the tunnel yet
    gSent,     \* history: the datagrams written to the substream
    gStream,   \* the bytes written to the substream and not read yet
    gOut       \* history: the datagrams written to the socket at the other end

dgramVars == <<gDir, gQueue, gSent, gStream, gOut>>

\* the listener loop: n, raddr = ln.ReadFromUDP(buf); p.stream.Write(buf[:n])
ListenerWrites ==
    /\ gDir = "up" /\ gQueue # <<>>
    /\ gStream' = gStream \o Head(gQueue)
    /\ gSent' = Append(gSent, Head(gQueue))
    /\ gQueue' = Tail(gQueue)
    /\ UNCHANGED <<gDir, gOut>>

\* relay on the origin, cp(remote, stream): one Read of the substream into
\* the copy buffer, one Write of what was read on the UDP socket
RelayCopiesUp(n) ==
    /\ gDir = "up" /\ n \in 1..Len(gStream)
    /\ gOut' = Append(gOut, Take(gStream, n))
    /\ gStream' = Drop(gStream, n)
    /\ UNCHANGED <<gDir, gQueue, gSent>>

\* relay on the origin, cp(stream, remote): one Read of the UDP socket, which
\* returns one datagram, and one Write of it on the substream
RelayCopiesDown ==
    /\ gDir = "down" /\ gQueue # <<>>
    /\ gStream' = gStream \o Head(gQueue)
    /\ gSent' = Append(gSent, Head(gQueue))
    /\ gQueue' = Tail(gQueue)
    /\ UNCHANGED <<gDir, gOut>>

\* the reader goroutine of the flow: rn = p.stream.Read(rbuf);
\* ln.WriteToUDP(rbuf[:rn], raddr)
ReaderWrites(n) ==
    /\ gDir = "down" /\ n \in 1..Len(gStream)
    /\ gOut' = Append(gOut, Take(gStream, n))
    /\ gStream' = Drop(gStream, n)
    /\ UNCHANGED <<gDir, gQueue, gSent>>

\* a flow whose substream was just opened, with the datagrams to come
DgramStart(dirs, queues) ==
    /\ gDir \in dirs
    /\ gQueue \in queues
    /\ gSent = <<>>
    /\ gStream = <<>>
    /\ gOut = <<>>

(***************************************************************************)
(* SPECIFICATIONS.  Every specification runs one part of the program; the  *)
(* variables of the other parts keep their initial values.                 *)
(***************************************************************************)
\* the parts added after the first six
lateVars == <<acctVars, dgramVars>>

auxVars == <<relayVars, decoyVars, sizeVars, fragVars, lateVars>>

RelayIdle == RelayStart({<<>>}, {<<>>})

DecoyIdle == DecoyStart({[FakeDomain |-> <<>>, prefix |-> [segs |-> <<"search">>, subtree |-> FALSE]]})

SizeIdle == SizeStart({[len |-> 1, max |-> 4096]})

FragIdle == FragStart({[MinSize |-> 0, MaxSize |-> 1]}, {<<>>})

DgramIdle == DgramStart({"up"}, {<<>>})

LateIdle == AcctStart /\ DgramIdle

AuxIdle == RelayIdle /\ DecoyIdle /\ SizeIdle /\ FragIdle /\ LateIdle

vars == <<frameVars, routeVars, poolVars, handshakeVars, udpVars, openVars, auxVars>>

\* an EncryptedConn pair nobody writes on
FrameIdle ==
    FrameStart({[key |-> 0,
                 obfs |-> [present |-> FALSE, Enabled |-> FALSE, MinPadding |-> 0,
                           MaxPadding |-> 0],
                 stealth |-> [present |-> FALSE, RandomPadding |-> FALSE, MinPadding |-> 0,
                              MaxPadding |-> 0, BurstSplit |-> FALSE,
                              MaxBurstSize |-> 4096]]},
               {[t \in Tasks |-> <<>>]}, 0)

RouteIdle == RouteStart({"edge"})

PoolIdle == PoolStart({<<3000>>})

HandshakeIdle == HandshakeStart({101}, {<<>>})

OpenIdle == OpenStart({512})

nonFrameVars == <<routeVars, poolVars, handshakeVars, udpVars, openVars, auxVars>>

NonFrameIdle == RouteIdle /\ PoolIdle /\ HandshakeIdle /\ UdpStart /\ OpenIdle /\ AuxIdle

nonRouteVars == <<frameVars, poolVars, handshakeVars, udpVars, openVars, auxVars>>

NonRouteIdle == FrameIdle /\ PoolIdle /\ HandshakeIdle /\ UdpStart /\ OpenIdle /\ AuxIdle

nonPoolVars == <<frameVars, routeVars, handshakeVars, udpVars, openVars, auxVars>>

NonPoolIdle == FrameIdle /\ RouteIdle /\ HandshakeIdle /\ UdpStart /\ OpenIdle /\ AuxIdle

nonHandshakeVars == <<frameVars, routeVars, poolVars, udpVars, openVars, auxVars>>

NonHandshakeIdle == FrameIdle /\ RouteIdle /\ PoolIdle /\ UdpStart /\ OpenIdle /\ AuxIdle

nonUdpVars == <<frameVars, routeVars, poolVars, handshakeVars, openVars, auxVars>>

NonUdpIdle == FrameIdle /\ RouteIdle /\ PoolIdle /\ HandshakeIdle /\ OpenIdle /\ AuxIdle

(***************************************************************************)
(* SpecFrame: one task writes one plaintext, the peer reads it back with   *)
(* buffers of 1..MaxBuf bytes; no fault is injected.                       *)
(***************************************************************************)
InitFrame ==
    /\ NonFrameIdle
    /\ FrameStart(FrameConfigs,
               {[t \in Tasks |-> IF t = 1 THEN <<p>> ELSE <<>>] : p \in Payloads(MaxLen)}, 0)

NextFrame ==
    \/ Write(1) /\ UNCHANGED nonFrameVars
    \/ (\E n \in 1..MaxBuf : Read(n)) /\ UNCHANGED nonFrameVars
    \/ CloseConn /\ UNCHANGED nonFrameVars

SpecFrame == InitFrame /\ [][NextFrame]_vars

\* every byte written has been read: nothing in flight, nothing left over
Consumed == wire = <<>> /\ readBuf = <<>> /\ \A t \in Tasks : pc[t] = "idle"

\* C1: Write(p) followed by Reads until the packet is consumed returns exactly p,
\* for every key and padding policy.
C1_FrameRoundTrip == (Consumed /\ ~tampered /\ ~failed) => delivered = sent

\* C32: with the same configuration on both ends the reader strips a uint16
\* length prefix from a packet exactly if the writer put one in front of it,
\* for every write size; with both padding policies off the body is carried
\* and returned verbatim.  (In SpecFrame the packet read is the one Write made
\* for the plaintext sent.)
C32_PrefixSymmetry ==
    [][(Len(wire') < Len(wire) /\ readBuf = <<>> /\ rres'.err = "nil") =>
          LET pkt == Drop(wire, 4)
              body == IF cfg.key = 0 THEN pkt
                      ELSE Open(cfg.key, Take(pkt, NonceSize), Drop(pkt, NonceSize)).v
              got == SubSeq(delivered', Len(delivered) + 1, Len(delivered')) \o readBuf'
              prepended == Len(body) > Len(sent)
              stripped == Len(got) < Len(body)
              obfsOn == cfg.obfs.present /\ cfg.obfs.Enabled
              stealthOn == cfg.stealth.present /\ cfg.stealth.RandomPadding
          IN  /\ stripped <=> prepended
              /\ (~obfsOn /\ ~stealthOn) => (body = sent /\ got = sent)]_vars

(***************************************************************************)
(* SpecFail: one task writes two plaintexts while the environment may      *)
(* corrupt a byte in flight, send an illegal frame or close the stream.    *)
(***************************************************************************)
InitFail ==
    /\ NonFrameIdle
    /\ FrameStart(FrameConfigs,
               {[t \in Tasks |-> IF t = 1 THEN <<p, q>> ELSE <<>>] :
                   p \in Payloads(2), q \in {<<1>>}}, 1)

NextFail ==
    \/ Write(1) /\ UNCHANGED nonFrameVars
    \/ (\E n \in 1..MaxBuf : Read(n)) /\ UNCHANGED nonFrameVars
    \/ CloseConn /\ UNCHANGED nonFrameVars
    \/ Tamper /\ UNCHANGED nonFrameVars
    \/ Inject /\ UNCHANGED nonFrameVars

SpecFail == InitFail /\ [][NextFail]_vars

\* C4: once a Read has failed (AEAD, length, padding, short read) or a Write has
\* failed, every later Read and Write returns an error.
C4_FailureIsTerminal == ~okAfterFail

\* C14: a Read that takes a length prefix of 0 or of more than 16 MiB from the
\* stream returns an error and no plaintext and consumes the four bytes of the
\* prefix only; a prefix of 1..16 MiB is not rejected for its length.
C14_LengthBounds ==
    [][(Len(wire') < Len(wire) /\ readBuf = <<>> /\ Len(wire) >= 4) =>
          LET zero == \A i \in 1..4 : wire[i] = 0
              over == \/ wire[1] > 1
                      \/ wire[1] = 1 /\ \E i \in 2..4 : wire[i] > 0
          IN  IF zero \/ over
              THEN /\ rres'.err = "length" /\ rres'.n = 0
                   /\ delivered' = delivered
                   /\ readBuf' = <<>>
                   /\ wire' = Drop(wire, 4)
              ELSE rres'.err # "length"]_vars

\* Read rejected a prefix for its length after it had delivered a packet
C14_Witness ==
    /\ rres.err = "length"
    /\ delivered # <<>>

\* C22, as far as it concerns the channel: a Read that takes from the stream
\* a whole packet which fails AEAD open, or whose plaintext, with padding
\* configured, has a length prefix that does not fit (a plaintext of more
\* than 4 bytes under stealth padding, whose writer pads only those), returns
\* an error and hands none of the packet's bytes to its caller, the multiplexer.
C22_CryptoFailure ==
    [][(Len(wire') < Len(wire) /\ readBuf = <<>> /\ Len(wire) >= 4) =>
          LET pktLen == Uint32(Take(wire, 4))
              whole == pktLen >= 1 /\ pktLen <= MaxPacket /\ Len(wire) - 4 >= pktLen
              pkt == SubSeq(wire, 5, 4 + pktLen)
              short == cfg.key # 0 /\ Len(pkt) < NonceSize
              o == IF cfg.key = 0 THEN [ok |-> TRUE, v |-> pkt]
                   ELSE IF short THEN [ok |-> FALSE, v |-> <<>>]
                   ELSE Open(cfg.key, Take(pkt, NonceSize), Drop(pkt, NonceSize))
              obfsOn == cfg.obfs.present /\ cfg.obfs.Enabled
              stealthOn == cfg.stealth.present /\ cfg.stealth.RandomPadding
              badPrefix == /\ o.ok
                           /\ obfsOn \/ (stealthOn /\ Len(o.v) > 4)
                           /\ Len(o.v) < 2 \/ Uint16(o.v) + 2 > Len(o.v)
          IN  (whole /\ (~o.ok \/ badPrefix)) =>
                 /\ rres'.err # "nil" /\ rres'.n = 0
                 /\ delivered' = delivered
                 /\ readBuf' = <<>>]_vars

(***************************************************************************)
(* SpecConc: two tasks write concurrently on one channel with burst        *)
(* splitting on; task 1 writes a large plaintext of bytes 1, task 2 a      *)
(* small or a large plaintext of bytes 2.                                  *)
(***************************************************************************)
\* *StealthConfig with burst splitting at 512 or 513 bytes
BurstConfigs ==
    {[present |-> TRUE, RandomPadding |-> FALSE, MinPadding |-> 0, MaxPadding |-> 1,
      BurstSplit |-> TRUE, MaxBurstSize |-> mb] : mb \in {512, 513}}

ConcConfigs ==
    [key : Keys,
     obfs : {[present |-> TRUE, Enabled |-> FALSE, MinPadding |-> 1, MaxPadding |-> 3]},
     stealth : BurstConfigs]

\* caller buffer of the reader where large plaintexts are written
BigBuf == 4096

InitConc ==
    /\ NonFrameIdle
    /\ FrameStart(ConcConfigs,
               {[t \in Tasks |-> IF t = 1 THEN <<Fill(BurstLen, 1)>> ELSE <<q>>] :
                   q \in {<<2, 2>>, Fill(BurstLen - 500, 2)}}, 0)

NextConc ==
    \/ (\E t \in Tasks : Write(t)) /\ UNCHANGED nonFrameVars
    \/ (\E t \in Tasks : BurstChunk(t)) /\ UNCHANGED nonFrameVars
    \/ Read(BigBuf) /\ UNCHANGED nonFrameVars
    \/ CloseConn /\ UNCHANGED nonFrameVars

SpecConc == InitConc /\ [][NextConc]_vars

\* the Write call a buffer handed to conn.Write belongs to
CallOf(f) == <<f.task, f.call>>

\* C6: concurrent Writes serialize: the buffers handed to conn.Write by one Write
\* call (the chunks of a burst) are consecutive on the stream, and no task is
\* inside burstWrite unless it holds the writer lock.
C6_WritesSerialize ==
    /\ \A i, j, k \in 1..Len(frames) :
          (i < j /\ j < k /\ CallOf(frames[i]) = CallOf(frames[k]))
             => CallOf(frames[j]) = CallOf(frames[i])
    /\ \A t \in Tasks : pc[t] = "burst" => writeMu = t

\* both tasks have written and one of the writes was split into several chunks
C6_Witness ==
    /\ \A t \in Tasks : pc[t] = "idle" /\ queue[t] = <<>> /\ wres[t].err = "nil"
    /\ Len(frames) >= 4
    /\ \E i, j \in 1..Len(frames) : frames[i].task # frames[j].task

(***************************************************************************)
(* SpecRoute: one session of the edge or of the origin accepts substreams  *)
(* carrying any of RouteInputs.                                            *)
(***************************************************************************)
InitRoute ==
    /\ NonRouteIdle
    /\ RouteStart({"edge", "origin"})

NextRoute ==
    \/ (\E s \in Streams, data \in RouteInputs : AcceptStream(s, data))
          /\ UNCHANGED nonRouteVars
    \/ (\E s \in Streams : RouteStream(s)) /\ UNCHANGED nonRouteVars
    \/ (\E s \in Streams, ok \in BOOLEAN : DialResult(s, ok)) /\ UNCHANGED nonRouteVars
    \/ (\E s \in Streams : StreamEnd(s)) /\ UNCHANGED nonRouteVars
    \/ SessionDies /\ UNCHANGED nonRouteVars

SpecRoute == InitRoute /\ [][NextRoute]_vars

\* substream s has been routed by its handler while the session was alive
Routed(s) == sPc[s] \notin {"free", "accepted"} /\ ~sessKilled

\* C2: on either endpoint a substream whose first byte is 0x01 or 0x02 and that
\* carries a target header is handled the same way: the target is dialed.
C2_TagRouting ==
    \A s \in Streams :
       (Routed(s) /\ Len(sIn[s]) >= 1 /\ sIn[s][1] \in {StreamTypeForward, StreamTypeReverse})
          => \A t \in Targets :
                Tail(sIn[s]) = TargetHeader(t) => sRoute[s] = RouteDial(splitTarget(t))

LegacyLen(data) == data[1] * 256 + data[2]

Served(s) ==
    /\ Routed(s) /\ Len(sIn[s]) >= 3
    /\ sIn[s][1] = (IF endpoint = "edge" THEN StreamTypeForward ELSE StreamTypeReverse)

\* C15: the receiver of a served substream closes it without dialing when the
\* target length is 0 or above 4096, and dials the target that follows a
\* length in 1..4096.
C15_TargetLengthBounds ==
    \A s \in Streams :
       Served(s) =>
          LET tLen == sIn[s][2] * 256 + sIn[s][3]
          IN  IF tLen = 0 \/ tLen > 4096 THEN sRoute[s] = RouteClose
              ELSE Len(sIn[s]) >= 3 + tLen =>
                      /\ sRoute[s].act = "dial"
                      /\ sRoute[s].addr \in {SubSeq(sIn[s], 4, 3 + tLen),
                                              SubSeq(sIn[s], 10, 3 + tLen)}

\* a served substream with length 4097 and as many bytes after it was closed
C15_Witness ==
    \E s \in Streams :
       /\ Served(s) /\ sPc[s] = "closed"
       /\ sIn[s][2] * 256 + sIn[s][3] = MaxTargetLen + 1
       /\ Len(sIn[s]) = 3 + MaxTargetLen + 1

\* C16: the header an opener writes for tcp://host:port, udp://host:port or a
\* scheme-less target is parsed by the receiver to (tcp, host:port),
\* (udp, host:port) and (tcp, target).
C16_TargetRoundTrip ==
    \A s \in Streams :
       Served(s) =>
          /\ Tail(sIn[s]) = TargetHeader(TcpScheme \o HostPort)
                => sRoute[s] = [act |-> "dial", network |-> "tcp", addr |-> HostPort]
          /\ Tail(sIn[s]) = TargetHeader(UdpScheme \o HostPort)
                => sRoute[s] = [act |-> "dial", network |-> "udp", addr |-> HostPort]
          /\ \A t \in {HostPort, Fill(1, 104), Fill(MaxTargetLen, 104)} :
                Tail(sIn[s]) = TargetHeader(t)
                   => sRoute[s] = [act |-> "dial", network |-> "tcp", addr |-> t]

\* the origin relays to the udp target of a reverse substream
C16_Witness ==
    \E s \in Streams :
       /\ Served(s) /\ endpoint = "origin" /\ sPc[s] = "relay"
       /\ Tail(sIn[s]) = TargetHeader(UdpScheme \o HostPort)
       /\ sRoute[s].network = "udp"

(***************************************************************************)
(* SpecPools: the origin workers dial the edge over one or two paths; the  *)
(* edge accepts or rejects each request; transports die.                   *)
(***************************************************************************)
InitPools ==
    /\ NonPoolIdle
    /\ PoolStart({<<3000>>, <<3000, 8000>>})

NextPools ==
    \/ (\E w \in Workers, ok, long \in BOOLEAN : Dial(w, ok, long)) /\ UNCHANGED nonPoolVars
    \/ (\E w \in Workers, long \in BOOLEAN : Handshake(w, long)) /\ UNCHANGED nonPoolVars
    \/ (\E w \in Workers, long \in BOOLEAN : ServeEnds(w, long)) /\ UNCHANGED nonPoolVars
    \/ (\E w \in Workers : Wake(w)) /\ UNCHANGED nonPoolVars
    \/ (\E k \in ConnIds, valid \in BOOLEAN : HandleTunnel(k, valid))
          /\ UNCHANGED nonPoolVars
    \/ (\E k \in ConnIds : Other200(k)) /\ UNCHANGED nonPoolVars
    \/ (\E k \in ConnIds : TunnelEnds(k)) /\ UNCHANGED nonPoolVars
    \/ (\E k \in ConnIds : LinkDies(k)) /\ UNCHANGED nonPoolVars
    \/ (\E k \in ConnIds, side \in {"edge", "origin"} : SessionCloses(k, side))
          /\ UNCHANGED nonPoolVars

SpecPools == InitPools /\ [][NextPools]_vars

\* C5: after a failed mimicry handshake the worker has closed the connection,
\* added no session, and sleeps before the next dial; nothing crashed.
C5_HandshakeFailureBacksOff ==
    \A w \in Workers :
       hsFailed[w] => /\ ~panicked
                      /\ wPc[w] \in {"sleep", "dial"}
                      /\ wSess[w] \notin rawOpenO
                      /\ \A i \in 1..Len(cSessions) : cSessions[i] # wSess[w]

\* C25: the edge pool never holds more than advanced.max_connections entries.
C25_PoolBound == Len(sessions) <= MaxConnections

(***************************************************************************)
(* SpecHealth: the origin workers reach the edge over one path and every   *)
(* request is accepted; transports die, and both health loops tick while   *)
(* the sessions come and go.                                               *)
(* The sessions die young here (long = FALSE): what poolWorker does after  *)
(* a long-lived one is the subject of SpecPools and SpecWorker.            *)
(***************************************************************************)
InitHealth ==
    /\ NonPoolIdle
    /\ PoolStart({<<3000>>})

NextHealth ==
    \/ (\E w \in Workers, long \in {FALSE} : Dial(w, TRUE, long)) /\ UNCHANGED nonPoolVars
    \/ (\E w \in Workers, long \in {FALSE} : Handshake(w, long)) /\ UNCHANGED nonPoolVars
    \/ (\E w \in Workers, long \in {FALSE} : ServeEnds(w, long)) /\ UNCHANGED nonPoolVars
    \/ (\E w \in Workers : Wake(w)) /\ UNCHANGED nonPoolVars
    \/ SessionHealthCheck /\ UNCHANGED nonPoolVars
    \/ (\E k \in ConnIds : HandleTunnel(k, TRUE)) /\ UNCHANGED nonPoolVars
    \/ (\E k \in ConnIds : TunnelEnds(k)) /\ UNCHANGED nonPoolVars
    \/ HealthMonitor /\ UNCHANGED nonPoolVars
    \/ (\E k \in ConnIds : LinkDies(k)) /\ UNCHANGED nonPoolVars
    \/ (\E k \in ConnIds, side \in {"edge", "origin"} : SessionCloses(k, side))
          /\ UNCHANGED nonPoolVars

SpecHealth == InitHealth /\ [][NextHealth]_vars

(***************************************************************************)
(* SpecHandshake: the edge answers the upgrade request and goes on         *)
(* sending tunnel bytes; they arrive in pieces while the origin is in      *)
(* http.ReadResponse and while it reads from the returned conn.            *)
(***************************************************************************)
InitHandshake ==
    /\ NonHandshakeIdle
    /\ HandshakeStart({101, 200, 404},
                      UNION {[1..n -> TunnelBytes] : n \in 0..MaxTunnel})

NextHandshake ==
    \/ (\E k \in 1..(Len(ResponseHeader) + MaxTunnel) : Arrive(k))
          /\ UNCHANGED nonHandshakeVars
    \/ (\E k \in 1..(Len(ResponseHeader) + MaxTunnel) : ReadResponse(k))
          /\ UNCHANGED nonHandshakeVars
    \/ (\E n \in ReadSizes, k \in 1..(Len(ResponseHeader) + MaxTunnel) : BufferedRead(n, k))
          /\ UNCHANGED nonHandshakeVars

SpecHandshake == InitHandshake /\ [][NextHandshake]_vars

\* C7: after a successful ClientHandshake the bytes Read has returned, the
\* bytes still in br, the bytes on the socket and the bytes yet to arrive
\* are together the bytes sent after the headers, in order; and the bytes
\* that were in br when the handshake returned are the first ones Read returns.
C7_BufferedBytesFirst ==
    hPc = "done" =>
        /\ hDelivered \o br \o hSock \o hPending = tunnel
        /\ LET m == Min(Len(hDelivered), Len(preRead))
           IN  Take(hDelivered, m) = Take(preRead, m)

\* Read returned the bytes read ahead during the handshake and then later ones
C7_Witness ==
    /\ hPc = "done"
    /\ preRead # <<>>
    /\ Len(hDelivered) > Len(preRead)
    /\ hDelivered = tunnel

\* C8: a health tick of either pool leaves exactly the sessions that are not
\* closed, in their order; so a closed session is gone after the next tick.
C8_TickEvictsClosed ==
    [][/\ tockE' # tockE =>
            sessions' = SelectSeq(sessions, LAMBDA e : e.id \notin closedE)
       /\ tockO' # tockO =>
            cSessions' = SelectSeq(cSessions, LAMBDA k : k \notin closedO)]_vars

\* both ticks evicted a closed session and an open session stayed in each pool
C8_Witness ==
    /\ evictedE > 0 /\ \E i \in 1..Len(sessions) : sessions[i].id \notin closedE
    /\ removedO > 0 /\ \E i \in 1..Len(cSessions) : cSessions[i] \notin closedO

(***************************************************************************)
(* SpecUdp: datagrams of a peer arrive at the UDP listener at any times,   *)
(* replies come back, and the sweeper ticks every 30 s.  The origin keeps  *)
(* every substream open.                                                   *)
(***************************************************************************)
InitUdp ==
    /\ NonUdpIdle
    /\ UdpStart

NextUdp ==
    \/ Sweep /\ UNCHANGED nonUdpVars
    \/ (\E a \in Peers, ok \in BOOLEAN : Recv(a, ok)) /\ UNCHANGED nonUdpVars
    \/ WriteDatagram /\ UNCHANGED nonUdpVars
    \/ (\E f \in 1..MaxFlows : Reply(f)) /\ UNCHANGED nonUdpVars
    \/ (\E f \in 1..MaxFlows : ReaderBreaks(f)) /\ UNCHANGED nonUdpVars
    \/ (\E f \in 1..MaxFlows : ReaderDeletes(f)) /\ UNCHANGED nonUdpVars
    \/ (\E d \in ClockSteps : Advance(d)) /\ UNCHANGED nonUdpVars

SpecUdp == InitUdp /\ [][NextUdp]_vars

\* C9: a peer has at most one open substream at a time, every datagram is
\* written to an open substream, and no reader deletes an entry that is not
\* its own.
C9_OneFlowPerPeer ==
    /\ \A a \in Peers : Cardinality(OpenFlows(a)) <= 1
    /\ \A i \in 1..Len(uLog) : uLog[i].open
    /\ ~uForeign

\* the datagram of peer a written before datagram i, 0 if there is none
PrevOf(i) ==
    LET before == {j \in 1..(i - 1) : uLog[j].peer = uLog[i].peer}
    IN  IF before = {} THEN 0 ELSE CHOOSE j \in before : \A k \in before : k <= j

\* C10: a datagram less than udp_flow_timeout after the peer's previous one is
\* written to the same substream; a datagram that comes after the flow was
\* silent for more than udp_flow_timeout is written to a new substream.
C10_FlowFreshness ==
    \A i \in 1..Len(uLog) :
       PrevOf(i) # 0 =>
          /\ uLog[i].gap < UDPFlowTimeout => uLog[i].flow = uLog[PrevOf(i)].flow
          /\ uLog[i].quiet > UDPFlowTimeout => uLog[i].flow # uLog[PrevOf(i)].flow

(***************************************************************************)
(* SpecWorker: one pool worker somewhere in its retry history (any fail    *)
(* count below the switch threshold, on any configured path) next to a     *)
(* fresh one; connections are dialed, served and lost.                     *)
(***************************************************************************)
InitWorker ==
    /\ NonPoolIdle
    /\ PoolFrom({<<3000>>, <<3000, 8000>>}, 0..(maxFailsBeforeSwitch - 1), {0, 1})
    /\ failCount[2] = 0 /\ pathIdx[2] = 0

SpecWorker == InitWorker /\ [][NextPools]_vars

\* worker w sleeps after connectAndServe returned an error
Returned(w) == wPc[w] = "sleep" /\ wSleep[w].kind # "none"

\* the rotation condition of poolWorker met by the return worker w sleeps after
Rotated(w) ==
    /\ ~wSleep[w].long
    /\ wSleep[w].fails + 1 >= maxFailsBeforeSwitch
    /\ Len(paths) > 1

\* C18: after a session that lived at least 30 s the fail count is 0, the path
\* is the same and the worker dials again without sleeping; a shorter one is
\* counted as one more failure.
C18_NoSleepAfterLongLived ==
    \A w \in Workers :
       Returned(w) =>
          IF wSleep[w].long
          THEN /\ failCount[w] = 0
               /\ pathIdx[w] = wSleep[w].path
               /\ wSleep[w].ms = 0 /\ ~wSleep[w].jitter
          ELSE failCount[w] = IF Rotated(w) THEN 0 ELSE wSleep[w].fails + 1

\* C36: after a quick failure that does not rotate the path the worker sleeps
\* retry_interval * fail_count, capped at 15 s, plus a random jitter of
\* 0..500 ms, before it dials again.
C36_BackoffDelay ==
    \A w \in Workers :
       (Returned(w) /\ ~wSleep[w].long /\ ~Rotated(w)) =>
          LET retry == IF paths[wSleep[w].path + 1] <= 0 THEN 3000
                       ELSE paths[wSleep[w].path + 1]
          IN  /\ wSleep[w].ms = Min(retry * (wSleep[w].fails + 1), BackoffCapMs)
              /\ wSleep[w].jitter

\* C19: with more than one path a worker moves to the next path, round robin,
\* exactly on the third consecutive quick failure, with the fail count back at
\* 0; it pauses 10 s exactly when that move wrapped to the first path; between
\* iterations the fail count stays below 3.
C19_PathRotation ==
    Len(paths) > 1 =>
       \A w \in Workers :
          /\ failCount[w] < maxFailsBeforeSwitch
          /\ pathIdx[w] < Len(paths)
          /\ Returned(w) =>
                LET third == /\ ~wSleep[w].long
                             /\ wSleep[w].fails = maxFailsBeforeSwitch - 1
                IN  /\ third <=> pathIdx[w] # wSleep[w].path
                    /\ third => /\ pathIdx[w] = (wSleep[w].path + 1) % Len(paths)
                                /\ failCount[w] = 0
                    /\ (third /\ pathIdx[w] = 0)
                          <=> (wSleep[w].kind = "allpaths" /\ wSleep[w].ms = AllPathsSleepMs)
                    /\ (third /\ pathIdx[w] # 0)
                          => (wSleep[w].kind = "retry" /\ wSleep[w].jitter)

\* the third quick failure on the last path sends the worker back to the first
\* path, after the pause
C19_Witness ==
    \E w \in Workers :
       /\ Returned(w) /\ Rotated(w)
       /\ wSleep[w].path = Len(paths) - 1 /\ pathIdx[w] = 0
       /\ wSleep[w].kind = "allpaths"

(***************************************************************************)
(* SpecReconnect: scenario S4 with pool_size 1.  The edge is reachable and *)
(* accepts every handshake; the connection under an established session   *)
(* can be killed at any time.  The worker goroutine, the tunnel handler of *)
(* the edge and the keepalive of both sessions keep running (weak          *)
(* fairness); kills and the health ticks of the origin are under no        *)
(* obligation.                                                             *)
(***************************************************************************)
Started == {1}

InPool(k) == \E i \in 1..Len(cSessions) : cSessions[i] = k

InitReconnect ==
    /\ NonPoolIdle
    /\ PoolStart({<<3000>>, <<3000, 8000>>})

WorkerStep(w) ==
    \/ \E long \in BOOLEAN : Dial(w, TRUE, long)
    \/ \E long \in BOOLEAN : Handshake(w, long)
    \/ \E long \in BOOLEAN : ServeEnds(w, long)
    \/ Wake(w)

NextReconnect ==
    \/ (\E w \in Started, long \in BOOLEAN : Dial(w, TRUE, long)) /\ UNCHANGED nonPoolVars
    \/ (\E w \in Started, long \in BOOLEAN : Handshake(w, long)) /\ UNCHANGED nonPoolVars
    \/ (\E w \in Started, long \in BOOLEAN : ServeEnds(w, long)) /\ UNCHANGED nonPoolVars
    \/ (\E w \in Started : Wake(w)) /\ UNCHANGED nonPoolVars
    \/ (\E k \in ConnIds : HandleTunnel(k, TRUE)) /\ UNCHANGED nonPoolVars
    \/ (\E k \in ConnIds : TunnelEnds(k)) /\ UNCHANGED nonPoolVars
    \/ (\E k \in ConnIds : InPool(k) /\ LinkDies(k)) /\ UNCHANGED nonPoolVars
    \/ (\E k \in ConnIds, side \in {"edge", "origin"} : SessionCloses(k, side))
          /\ UNCHANGED nonPoolVars
    \/ SessionHealthCheck /\ UNCHANGED nonPoolVars

FairReconnect ==
    /\ \A w \in Started : WF_vars(WorkerStep(w) /\ UNCHANGED nonPoolVars)
    /\ \A k \in ConnIds : WF_vars(HandleTunnel(k, TRUE) /\ UNCHANGED nonPoolVars)
    /\ \A k \in ConnIds : WF_vars(TunnelEnds(k) /\ UNCHANGED nonPoolVars)
    /\ \A k \in ConnIds :
          WF_vars((\E side \in {"edge", "origin"} : SessionCloses(k, side))
                     /\ UNCHANGED nonPoolVars)

SpecReconnect == InitReconnect /\ [][NextReconnect]_vars /\ FairReconnect

\* the connection under session k of the origin pool has been killed, and the
\* model has a connection left for the next dial
Killed(k) == InPool(k) /\ k \in deadLinks /\ nextId <= MaxConns

\* session k is out of the origin pool and a session dialed after it is in:
\* the pool is back at its size
Reestablished(k) ==
    /\ ~InPool(k)
    /\ Len(cSessions) = Cardinality(Started)
    /\ \E i \in 1..Len(cSessions) : cSessions[i] > k

\* C20: after the connection under a pool session is killed the session leaves
\* the pool and the worker eventually has a new session in it; the worker never
\* stops (no crash, no exit from its loop).
C20_KillThenReconnect ==
    /\ \A k \in ConnIds : Killed(k) ~> Reestablished(k)
    /\ [](\A w \in Started : ~panicked /\ wPc[w] \in {"dial", "handshake", "serve", "sleep"})

\* the second session is in the pool after the first was killed and removed
C20_Witness ==
    /\ 1 \in deadLinks /\ 1 \in closedO /\ Reestablished(1)
    /\ link[2] = "accepted"

(***************************************************************************)
(* SpecOpen: zero, one or two tunnels are established.  Two TCP handlers   *)
(* and the UDP listener of the edge call openReverseStream; one of the     *)
(* connections dies and its session is closed and removed meanwhile.       *)
(***************************************************************************)
restOpenVars == <<frameVars, routeVars, handshakeVars, auxVars>>

nonOpenVars == <<frameVars, routeVars, handshakeVars, udpVars, openVars, auxVars>>

InitOpen ==
    /\ FrameIdle /\ RouteIdle /\ HandshakeIdle /\ UdpStart /\ AuxIdle
    /\ \E n \in 0..Cardinality(Workers) : PoolEstablished(n)
    /\ OpenStart({1, 2})

NextOpen ==
    \/ (\E o \in Openers : OpenBegin(o)) /\ UNCHANGED restOpenVars
    \/ (\E o \in Openers : OpenLeast(o)) /\ UNCHANGED restOpenVars
    \/ (\E o \in Openers, j \in 0..3 : OpenFinish(o, j)) /\ UNCHANGED restOpenVars
    \/ (\E o \in Openers : RelayEnds(o)) /\ UNCHANGED restOpenVars
    \/ (\E o \in Openers, ok \in BOOLEAN : UdpWrite(o, ok)) /\ UNCHANGED restOpenVars
    \/ (\E k \in ConnIds : deadLinks = {} /\ LinkDies(k)) /\ UNCHANGED nonOpenVars
    \/ (\E k \in ConnIds : SessionCloses(k, "edge")) /\ UNCHANGED nonOpenVars
    \/ (\E k \in ConnIds : TunnelEnds(k)) /\ UNCHANGED nonOpenVars

SpecOpen == InitOpen /\ [][NextOpen]_vars

\* entry i of the pool is open and below the limit
Qualifies(i) ==
    sessions[i].id \notin closedE /\ sessions[i].streams < MaxStreamsPerSession

\* how far entry i is from the entry the next scan starts at
ScanDistance(i) ==
    ((i - 1) - ((poolIdx + 1) % Len(sessions)) + Len(sessions)) % Len(sessions)

\* C11: the scan of openReverseStream selects the first entry, counted from
\* (cursor + 1) mod N, that is open and below the limit; only if there is none
\* the call falls back, to an open entry of minimum load, and fails if every
\* session is closed; no substream is opened on a closed session.
C11_PickForOpen ==
    [][\A o \in Openers :
          /\ (poolIdx' = poolIdx + 1 /\ oPc[o] = "idle" /\ oPc'[o] # "idle") =>
                IF \E i \in 1..Len(sessions) : Qualifies(i)
                THEN \E i \in 1..Len(sessions) :
                        /\ Qualifies(i)
                        /\ \A j \in 1..Len(sessions) :
                              Qualifies(j) => ScanDistance(i) <= ScanDistance(j)
                        /\ cur'[o].pick = sessions[i].id
                        /\ cur'[o].via = "scan" /\ oPc'[o] = "open"
                ELSE cur'[o].pick = 0 /\ oPc'[o] = "least"
          /\ (oPc[o] = "least" /\ oPc'[o] # "least") =>
                IF \E i \in 1..Len(sessions) : sessions[i].id \notin closedE
                THEN \E i \in 1..Len(sessions) :
                        /\ sessions[i].id \notin closedE
                        /\ \A j \in 1..Len(sessions) :
                              sessions[j].id \notin closedE
                                 => sessions[i].streams <= sessions[j].streams
                        /\ cur'[o].pick = sessions[i].id
                        /\ cur'[o].via = "least" /\ oPc'[o] = "open"
                ELSE cur'[o].err # "none" /\ cur'[o].pick = 0 /\ oPc'[o] = "idle"
          /\ (oPc[o] = "open" /\ oPc'[o] # "open" /\ cur[o].pick \in closedE) =>
                /\ cur'[o].err # "none" /\ cur'[o].wrote = <<>> /\ oPc'[o] = "idle"
                /\ \A i \in 1..Len(sessions') :
                      \E j \in 1..Len(sessions) : sessions'[i] = sessions[j]
      ]_vars

\* a call fell back and picked the less loaded of two open sessions, which is
\* not the first of them
C11_Witness ==
    \E o \in Openers :
       /\ oPc[o] = "open" /\ cur[o].via = "least"
       /\ \E i, j \in 1..Len(sessions) :
             /\ i < j /\ sessions[j].id = cur[o].pick
             /\ sessions[i].id \notin closedE
             /\ sessions[i].streams > sessions[j].streams

\* C37: the round-robin path of openReverseStream never raises the counter of a
\* session above max_streams_per_session, also when several calls run at the
\* same time on one session; only a call that took the least-loaded fallback
\* raises it beyond the limit.
C37_LimitUnderConcurrency ==
    [][\A o \in Openers :
          (oPc[o] = "open" /\ oPc'[o] # "open" /\ cur[o].via = "scan") =>
             \A i \in 1..Len(sessions') :
                sessions'[i].id = cur[o].pick =>
                   sessions'[i].streams <= MaxStreamsPerSession]_vars

\* C12: the latest calls that saw the same N sessions, all open and below the
\* limit, picked every session equally often in every window of k*N
\* consecutive calls: N consecutive calls pick N distinct sessions.
C12_RoundRobin ==
    LET n == Len(picks.ids)
        p == picks.seq
    IN  \A a, b \in 1..Len(p) :
           (a <= b /\ (b - a + 1) % n = 0) =>
              \A i \in 1..n :
                 Cardinality({c \in a..b : p[c] = picks.ids[i]}) = (b - a + 1) \div n

\* four calls in a row were spread over two sessions, the last two of them
\* running at the same time
C12_Witness ==
    /\ Len(picks.ids) = 2 /\ Len(picks.seq) >= 4
    /\ Cardinality({o \in Openers : oPc[o] = "open"}) >= 2

\* C13: a call of openReverseStream on an empty pool returns an error in the
\* same step: the TCP handler has closed the user connection, the UDP listener
\* has dropped the datagram and made no entry; nothing is opened, written or
\* left waiting.
C13_EmptyPool ==
    [][Len(sessions) = 0 =>
          \A o \in Openers :
             oPc[o] = "idle" =>
                /\ oPc'[o] = "idle"
                /\ cur'[o] # cur[o] =>
                      /\ cur'[o].err = "no sessions"
                      /\ cur'[o].pick = 0 /\ cur'[o].wrote = <<>>
                      /\ KindOf(o) = "tcp" => cur'[o].conn = "closed"
                      /\ poolIdx' = poolIdx /\ sessions' = sessions
                      /\ peers' = peers /\ flows' = flows /\ uLog' = uLog /\ lnPc' = lnPc
      ]_vars

\* a TCP connection and a datagram both met the empty pool
C13_Witness ==
    /\ Len(sessions) = 0
    /\ cur[1].err = "no sessions" /\ cur[1].conn = "closed"
    /\ cur[UdpListener].err = "no sessions" /\ flows = <<>> /\ lnPc = "recv"

(***************************************************************************)
(* SpecTags: every way this program opens a substream, on one tunnel.  A   *)
(* TCP handler and the UDP listener of the edge call openReverseStream and *)
(* relay user bytes, the edge sends fake traffic, the forward proxy of the *)
(* origin calls Client.OpenStream, MaxCalls calls in all; the connection   *)
(* dies meanwhile, so writes fail.                                         *)
(***************************************************************************)
InitTags ==
    /\ FrameIdle /\ RouteIdle /\ HandshakeIdle /\ UdpStart /\ AuxIdle
    /\ PoolEstablished(1)
    /\ OpenStart({2})

NextTags ==
    \/ (\E o \in {1, UdpListener} : poolIdx + rrIndex < MaxCalls /\ OpenBegin(o))
          /\ UNCHANGED restOpenVars
    \/ (\E o \in {1, UdpListener} : OpenLeast(o)) /\ UNCHANGED restOpenVars
    \/ (\E o \in {1, UdpListener}, j \in 0..3 : OpenFinish(o, j)) /\ UNCHANGED restOpenVars
    \/ (\E o \in {1, UdpListener} : RelayData(o)) /\ UNCHANGED restOpenVars
    \/ (\E o \in {1, UdpListener} : RelayEnds(o)) /\ UNCHANGED restOpenVars
    \/ (\E o \in {1, UdpListener} : RecvKnown(o)) /\ UNCHANGED restOpenVars
    \/ (\E o \in {1, UdpListener}, ok \in BOOLEAN : UdpWrite(o, ok))
          /\ UNCHANGED restOpenVars
    \/ (\E k \in ConnIds, j \in 0..2, size \in FakeSizes : SendFake(k, j, size))
          /\ UNCHANGED restOpenVars
    \/ (\E failing \in {{}, deadLinks \ closedO}, j \in 0..3 :
           poolIdx + rrIndex < MaxCalls /\ ClientOpenStream(HostPort, failing, j))
          /\ UNCHANGED restOpenVars
    \/ ForwardData /\ UNCHANGED restOpenVars
    \/ (\E k \in ConnIds : deadLinks = {} /\ LinkDies(k)) /\ UNCHANGED nonOpenVars
    \/ (\E k \in ConnIds, side \in {"edge", "origin"} : SessionCloses(k, side))
          /\ UNCHANGED nonOpenVars
    \/ (\E k \in ConnIds : TunnelEnds(k)) /\ UNCHANGED nonOpenVars

SpecTags == InitTags /\ [][NextTags]_vars

\* the tag of the substreams a caller opens, and the bytes that must be on the
\* substream before any payload
TagOf(c) ==
    IF KindOf(c) = "fake" THEN StreamTypeFake
    ELSE IF KindOf(c) = "forward" THEN StreamTypeForward
    ELSE StreamTypeReverse

Preamble(c) ==
    IF KindOf(c) = "fake" THEN <<StreamTypeFake>>
    ELSE IF KindOf(c) = "forward"
    THEN <<StreamTypeForward>> \o PutUint16(Len(HostPort)) \o HostPort
    ELSE <<StreamTypeReverse>> \o TargetHeader(ReverseTarget(KindOf(c)))

\* C17: on every substream the first byte written is the tag of its opener;
\* what is written is a prefix of tag, length, target, or that whole preamble
\* followed by the payload.
C17_TagFirst ==
    \A c \in Callers :
       LET w == cur[c].wrote
       IN  /\ w # <<>> => w[1] = TagOf(c)
           /\ \/ w = Take(Preamble(c), Len(w))
              \/ Take(w, Len(Preamble(c))) = Preamble(c)

\* payload went out on a reverse TCP, a reverse UDP, a fake and a forward
\* substream
C17_Witness ==
    /\ cur[1].wrote = Preamble(1) \o UserData
    /\ cur[UdpListener].wrote = Preamble(UdpListener) \o UserData
    /\ Len(cur[FakeLoop].wrote) > Len(Preamble(FakeLoop))
    /\ cur[ForwardProxy].wrote = Preamble(ForwardProxy) \o UserData

(***************************************************************************)
(* SpecLocal: the session of the one established tunnel carries several    *)
(* substreams at once, on the edge or on the origin.  Their openers write  *)
(* good and bad preambles, dials succeed or fail, and the transport may be *)
(* cut, after which the session leaves the pool the usual way.             *)
(***************************************************************************)
LocalStreams == 1..(MaxStreams + 1)

\* nothing at all, unknown tags, a v2.4 header (first byte 0), fake traffic, and
\* for both tags a good header, the two illegal lengths and a header cut short
LocalInputs ==
    {<<>>, <<17>>, TargetHeader(HostPort), <<StreamTypeFake, 7>>}
      \cup UNION {{<<tag>> \o TargetHeader(HostPort), <<tag>> \o PutUint16(0),
                   <<tag>> \o PutUint16(MaxTargetLen + 1), <<tag, 0, 9, 116>>}
                  : tag \in {StreamTypeForward, StreamTypeReverse}}

restLocalVars == <<frameVars, handshakeVars, udpVars, openVars, auxVars>>

InitLocal ==
    /\ FrameIdle /\ HandshakeIdle /\ UdpStart /\ OpenIdle /\ AuxIdle
    /\ PoolEstablished(1)
    /\ RouteFrom({"edge", "origin"}, LocalStreams)

NextLocal ==
    \/ (\E s \in LocalStreams, data \in LocalInputs : AcceptStream(s, data))
          /\ UNCHANGED nonRouteVars
    \/ (\E s \in LocalStreams : RouteStream(s)) /\ UNCHANGED nonRouteVars
    \/ (\E s \in LocalStreams, ok \in BOOLEAN : DialResult(s, ok)) /\ UNCHANGED nonRouteVars
    \/ (\E s \in LocalStreams : StreamEnd(s)) /\ UNCHANGED nonRouteVars
    \/ SessionDies /\ LinkDies(1) /\ UNCHANGED restLocalVars
    \/ SessionCloses(1, endpoint) /\ UNCHANGED nonPoolVars
    \/ TunnelEnds(1) /\ UNCHANGED nonPoolVars
    \/ ServeEnds(1, FALSE) /\ UNCHANGED nonPoolVars

SpecLocal == InitLocal /\ [][NextLocal]_vars

\* the target header in hdr is cut short or carries an illegal length
HeaderError(hdr) ==
    \/ Len(hdr) < 2
    \/ Uint16(hdr) = 0
    \/ Uint16(hdr) > MaxTargetLen
    \/ Len(hdr) - 2 < Uint16(hdr)

\* a step that ends substream s leaves the session, both pools and the other
\* substreams as they were
OnlyCloses(s) ==
    /\ sPc'[s] = "closed"
    /\ sessOpen' = sessOpen /\ sessKilled' = sessKilled
    /\ UNCHANGED <<sessions, cSessions, closedE, closedO, eHandlers, deadLinks>>
    /\ \A t \in LocalStreams \ {s} :
          sPc'[t] = sPc[t] /\ sIn'[t] = sIn[t] /\ sRoute'[t] = sRoute[t]

\* handler of s is about to read the preamble / has returned from the dial
Reading(s) == sessOpen /\ sPc[s] = "accepted" /\ sPc'[s] # sPc[s]

DialFailed(s) == sPc[s] = "dialing" /\ sPc'[s] = "closed"

StallPeers == {1, 2}

InitStall ==
    /\ NonUdpIdle
    /\ UdpFrom(StallPeers)

NextStall ==
    \/ (\E a \in StallPeers, ok \in BOOLEAN : Recv(a, ok)) /\ UNCHANGED nonUdpVars
    \/ WriteDatagram /\ UNCHANGED nonUdpVars
    \/ WriteBlocks /\ UNCHANGED nonUdpVars
    \/ WriteResumes /\ UNCHANGED nonUdpVars
    \/ (\E f \in 1..MaxFlows, w \in BOOLEAN : Window(f, w)) /\ UNCHANGED nonUdpVars

SpecStall == InitStall /\ [][NextStall]_vars

\* C23: when the listener holds a datagram whose substream write would block,
\* its next step drops the datagram (nothing is written) and takes it back to
\* reading the socket; it never waits inside the write, so the datagrams of
\* the other peers are not held up.
C23_UdpWriteDrops ==
    [][(lnPc = "write" /\ WouldBlock(lnP.p) /\ lnPc' # lnPc) =>
          (lnPc' = "recv" /\ uLog' = uLog)]_vars

(***************************************************************************)
(* SpecRelay: the relay of one TCP mapping.  The user sends MaxLen bytes   *)
(* and the target answers with up to two; reads return 1..MaxBuf bytes,    *)
(* the destinations grant RelayWindow bytes of credit at a time, and       *)
(* either source may end at any moment.                                    *)
(***************************************************************************)
nonRelayVars == <<frameVars, routeVars, poolVars, handshakeVars, udpVars, openVars, decoyVars, sizeVars, fragVars, lateVars>>

\* the bytes 1..n, each one different
Counting(n) == [i \in 1..n |-> i]

InitRelay ==
    /\ FrameIdle /\ RouteIdle /\ PoolIdle /\ HandshakeIdle /\ UdpStart /\ OpenIdle
    /\ DecoyIdle /\ SizeIdle /\ FragIdle /\ LateIdle
    /\ RelayStart({Counting(MaxLen)}, {Counting(n) : n \in 0..2})

NextRelay ==
    \/ (\E d \in Dirs, n \in 1..MaxBuf : CopyRead(d, n)) /\ UNCHANGED nonRelayVars
    \/ (\E d \in Dirs : CopyWrite(d)) /\ UNCHANGED nonRelayVars
    \/ (\E d \in Dirs : Grant(d)) /\ UNCHANGED nonRelayVars
    \/ (\E d \in Dirs : CopyEnds(d)) /\ UNCHANGED nonRelayVars
    \/ (\E d \in Dirs : CopyAborts(d)) /\ UNCHANGED nonRelayVars

SpecRelay == InitRelay /\ [][NextRelay]_vars

\* C24: in both directions of a relay, the bytes written to the destination
\* are at all times a prefix of the bytes read from the source; while both
\* ends are open the bytes read and not yet written are exactly the ones the
\* pending Write holds, and a Write without credit waits with them.
C24_RelayKeepsBytes ==
    \A d \in Dirs :
       /\ Len(rDst[d]) <= Len(rRead[d])
       /\ rDst[d] = Take(rRead[d], Len(rDst[d]))
       /\ rOpen => /\ rDst[d] \o rBuf[d] = rRead[d]
                   /\ rPc[d] = "read" => rBuf[d] = <<>>
                   /\ rPc[d] = "write" => rBuf[d] # <<>>

\* the copy towards the substream waits in a Write that has written a part of
\* its buffer and has no credit for the rest
C24_Witness ==
    /\ rOpen /\ rPc["up"] = "write" /\ rCredit["up"] = 0
    /\ Len(rBuf["up"]) > 0 /\ Len(rDst["up"]) > RelayWindow

(***************************************************************************)
(* SpecDecoy: the origin workers dial, and the edge gets on each           *)
(* connection any of Requests, which it answers with the 101 or with the   *)
(* decoy; the worker then finishes its handshake.                          *)
(***************************************************************************)
restDecoyVars == <<frameVars, routeVars, handshakeVars, udpVars, openVars, relayVars, sizeVars, fragVars, lateVars>>

InitDecoy ==
    /\ FrameIdle /\ RouteIdle /\ HandshakeIdle /\ UdpStart /\ OpenIdle /\ RelayIdle
    /\ SizeIdle /\ FragIdle /\ LateIdle
    /\ PoolStart({<<3000>>})
    /\ DecoyStart(Mimics)

NextDecoy ==
    \/ (\E w \in Workers : Dial(w, TRUE, FALSE)) /\ UNCHANGED nonPoolVars
    \/ (\E k \in ConnIds, r \in Requests : ServeRequest(k, r)) /\ UNCHANGED restDecoyVars
    \/ (\E w \in Workers : Handshake(w, FALSE)) /\ UNCHANGED nonPoolVars

SpecDecoy == InitDecoy /\ [][NextDecoy]_vars

\* the reasons for which the last request fails validation
WrongMethod == hReq.method # "GET"

WrongHost ==
    /\ mimic.FakeDomain # <<>> /\ ~hReq.host.ip
    /\ hReq.host.labels \notin {mimic.FakeDomain, <<"www">> \o mimic.FakeDomain}

NotUpgrade ==
    \/ hReq.upgrade \notin {<<"WebSocket">>, <<"websocket">>}
    \/ hReq.connection # <<"keep-alive", "Upgrade">>

UnknownPath ==
    IF mimic.prefix.subtree THEN hReq.path # <<"api", "7">> ELSE hReq.path # <<"search">>

SizeCases ==
    {[len |-> 5000, max |-> 1024], [len |-> 1025, max |-> 1024],
     [len |-> 1100, max |-> 512], [len |-> 2048, max |-> 1024],
     [len |-> 600, max |-> 1024]}

nonSizeVars == <<frameVars, routeVars, poolVars, handshakeVars, udpVars, openVars, relayVars, decoyVars, fragVars, lateVars>>

InitSizes ==
    /\ FrameIdle /\ RouteIdle /\ PoolIdle /\ HandshakeIdle /\ UdpStart /\ OpenIdle
    /\ RelayIdle /\ DecoyIdle /\ FragIdle /\ LateIdle
    /\ SizeStart(SizeCases)

NextSizes ==
    \/ WriteSizes /\ UNCHANGED nonSizeVars
    \/ BurstSizes /\ UNCHANGED nonSizeVars

SpecSizes == InitSizes /\ [][NextSizes]_vars

\* the Write is being split: burst splitting applies and max_chunk_bytes >= 512
Split == bLen > bMax /\ bMax >= 512

\* C27: with burst splitting on, max_chunk_bytes >= 512 and |p| >
\* max_chunk_bytes, every packet emitted for Write(p) carries between 512 and
\* max_chunk_bytes plaintext bytes, and 5000 bytes under max_chunk_bytes = 1024
\* leave in between 5 and 10 packets.
C27_BurstChunkSizes ==
    Split =>
        /\ bCount >= 1 => bLast \in 512..bMax
        /\ bCount >= 2 => bMinPrev >= 512 /\ bMaxPrev <= bMax
        /\ (bPc = "done" /\ bLen = 5000 /\ bMax = 1024) => bCount \in 5..10

\* C27 as the code has it: every packet but the last carries between 512 and
\* max_chunk_bytes plaintext bytes, the last one between 1 and max_chunk_bytes
\* (what is left of p), the sizes add up to |p|, and 5000 bytes under
\* max_chunk_bytes = 1024 leave in between 5 and 10 packets.
C27_SizesAmended ==
    Split =>
        /\ bCount >= 1 => bLast \in 1..bMax
        /\ (bCount >= 1 /\ bLast < 512) => bPc = "done"
        /\ bCount >= 2 => bMinPrev >= 512 /\ bMaxPrev <= bMax
        /\ bPc = "done" => bLeft = 0
        /\ (bPc = "done" /\ bLen = 5000 /\ bMax = 1024) => bCount \in 5..10

\* 5000 bytes under max_chunk_bytes = 1024 have left in ten packets, the last
\* of them short
C27_Witness ==
    /\ bPc = "done" /\ bLen = 5000 /\ bMax = 1024
    /\ bCount = 10 /\ bLast < 512 /\ bMinPrev >= 512

(***************************************************************************)
(* SpecBurst: one task makes one Write of a plaintext whose bytes all      *)
(* differ from their neighbours, with burst splitting on or off and        *)
(* stealth padding on or off, and the peer reads.                          *)
(***************************************************************************)
\* the bytes 1, 2, 3, ... of a plaintext of n bytes
Ramp(n) == [i \in 1..n |-> i % 251]

\* plaintexts: one that splits in three, one that leaves a rest of three bytes
\* after a chunk of 512, and one below every MaxBurstSize
BurstPayloads == {Ramp(BurstLen), Ramp(512) \o <<0, 1, 7>>, Ramp(300)}

SplitConfigs ==
    [key : Keys,
     obfs : {[present |-> FALSE, Enabled |-> FALSE, MinPadding |-> 0, MaxPadding |-> 0]},
     stealth : [present : {TRUE}, RandomPadding : BOOLEAN, MinPadding : {0},
                MaxPadding : {1}, BurstSplit : BOOLEAN, MaxBurstSize : {512, 513}]]

InitBurst ==
    /\ NonFrameIdle
    /\ FrameStart(SplitConfigs,
               {[t \in Tasks |-> IF t = 1 THEN <<p>> ELSE <<>>] : p \in BurstPayloads}, 0)

NextBurst ==
    \/ Write(1) /\ UNCHANGED nonFrameVars
    \/ BurstChunk(1) /\ UNCHANGED nonFrameVars
    \/ Read(BigBuf) /\ UNCHANGED nonFrameVars
    \/ CloseConn /\ UNCHANGED nonFrameVars

SpecBurst == InitBurst /\ [][NextBurst]_vars

\* C28: a burst-split Write(p) emits chunks that are consecutive slices of p,
\* in order and covering p, and returns |p| on success; the peer reads exactly
\* p; with burst splitting off or |p| <= max_chunk_bytes Write(p) emits exactly
\* one packet.
C28_BurstContent ==
    [][/\ (pc[1] = "idle" /\ queue'[1] # queue[1]) =>
             LET p == Head(queue[1])
             IN  IF cfg.stealth.BurstSplit /\ Len(p) > cfg.stealth.MaxBurstSize
                 THEN /\ pc'[1] = "burst" /\ frames' = frames
                      /\ sent' \o remaining'[1] = p
                 ELSE /\ pc'[1] = "idle"
                      /\ wres'[1].err = "nil" =>
                            /\ Len(frames') = 1 /\ frames'[1].len = Len(p)
                            /\ sent' = p /\ wres'[1].n = Len(p)
       /\ pc[1] = "burst" =>
             /\ sent' \o remaining'[1] = sent \o remaining[1]
             /\ Len(frames') = Len(frames) + 1 =>
                   /\ frames'[Len(frames')].len = Len(sent') - Len(sent)
                   /\ Len(sent') > Len(sent)
             /\ (pc'[1] = "idle" /\ wres'[1].err = "nil") =>
                   remaining'[1] = <<>> /\ wres'[1].n = Len(sent')
       /\ (Consumed /\ queue[1] = <<>> /\ ~failed)' => delivered' = sent'
      ]_vars

(***************************************************************************)
(* SpecFrag: a FragmentedConn dialed with fragment sizes 2..3 or with the  *)
(* default minimum, on which up to MaxCalls writes of 1..MaxLen bytes are  *)
(* made while the connection may die.                                      *)
(***************************************************************************)
FragConfigs == {[MinSize |-> 2, MaxSize |-> 3], [MinSize |-> 0, MaxSize |-> 2]}

\* every sequence of 0..MaxCalls writes of the plaintexts 1, 1 2, 1 2 3, ...
FragQueues == UNION {[1..k -> {Ramp(m) : m \in 1..MaxLen}] : k \in 0..MaxCalls}

nonFragVars == <<frameVars, routeVars, poolVars, handshakeVars, udpVars, openVars, relayVars, decoyVars, sizeVars, lateVars>>

InitFrag ==
    /\ FrameIdle /\ RouteIdle /\ PoolIdle /\ HandshakeIdle /\ UdpStart /\ OpenIdle
    /\ RelayIdle /\ DecoyIdle /\ SizeIdle /\ LateIdle
    /\ FragStart(FragConfigs, FragQueues)

NextFrag ==
    \/ FragWrite /\ UNCHANGED nonFragVars
    \/ FragRest /\ UNCHANGED nonFragVars
    \/ FragConnDies /\ UNCHANGED nonFragVars

SpecFrag == InitFrag /\ [][NextFrag]_vars

\* the first write larger than fragment_size among the finished ones, 0 if none
FirstLarge ==
    LET large == {i \in 1..Len(fOut) : Len(fOut[i].data) > fragmentSize}
    IN  IF large = {} THEN 0 ELSE CHOOSE i \in large : \A j \in large : i <= j

\* C29: of the writes made on one FragmentedConn only the first one larger than
\* fragment_size is split, whether or not smaller writes came before it: it
\* goes out as two writes, the first fragment_size bytes and then the rest,
\* and returns its length; every other write goes out as one write.
C29_FirstLargeWriteSplit ==
    \A i \in 1..Len(fOut) :
       fOut[i].err = "nil" =>
          /\ fOut[i].n = Len(fOut[i].data)
          /\ IF i = FirstLarge
             THEN fOut[i].outs = <<Take(fOut[i].data, fragmentSize),
                                   Drop(fOut[i].data, fragmentSize)>>
             ELSE fOut[i].outs = <<fOut[i].data>>

(***************************************************************************)
(* SpecEvict: the forward proxy of the origin calls Client.OpenStream on a *)
(* pool of two sessions whose connections die and which close, while the   *)
(* health check runs.                                                      *)
(***************************************************************************)
InitEvict ==
    /\ FrameIdle /\ RouteIdle /\ HandshakeIdle /\ UdpStart /\ AuxIdle
    /\ PoolEstablished(2)
    /\ OpenStart({2})

NextEvict ==
    \/ (\E failing \in SUBSET (deadLinks \ closedO), j \in 0..3 :
           ClientOpenStream(HostPort, failing, j))
          /\ UNCHANGED restOpenVars
    \/ (\E k \in ConnIds : LinkDies(k)) /\ UNCHANGED nonOpenVars
    \/ (\E k \in ConnIds : SessionCloses(k, "origin")) /\ UNCHANGED nonOpenVars
    \/ SessionHealthCheck /\ UNCHANGED nonOpenVars

SpecEvict == InitEvict /\ [][NextEvict]_vars

\* the sessions the loop of a call looked at: those before pick in the order
\* of the scan from idx, all of them if nothing was picked
Scanned(snap, idx, pick) ==
    LET n == Len(snap)
        at(i) == snap[((idx + i) % n) + 1]
        stop == IF pick = 0 THEN n
                ELSE CHOOSE i \in 0..(n - 1) : at(i) = pick /\ \A j \in 0..(i - 1) : at(j) # pick
    IN  {at(i) : i \in 0..(stop - 1)}

\* the call of Client.OpenStream a step makes on a pool that is not empty
OpenStreamCall == Len(cSessions) > 0 /\ rrIndex' = rrIndex + 1

\* C30: when Client.OpenStream returns, every session it found dead during the
\* call, closed or failing to open a substream, is no longer in the pool of
\* the origin; on an empty pool it returns "no active session".
C30_OpenStreamEvicts ==
    [][/\ OpenStreamCall =>
             \A k \in Scanned(cSessions, rrIndex + 1, cur'[ForwardProxy].pick) :
                \A i \in 1..Len(cSessions') : cSessions'[i] # k
       /\ (Len(cSessions) = 0 /\ cur'[ForwardProxy] # cur[ForwardProxy]) =>
             /\ cur'[ForwardProxy].err = "no active session"
             /\ cur'[ForwardProxy].pick = 0
             /\ cSessions' = cSessions
      ]_vars

\* C30 as the code has it: when Client.OpenStream returns, the sessions whose
\* OpenStream failed during the call are no longer in the pool; the sessions it
\* found closed were skipped and are still there, and so is every session it
\* did not look at; on an empty pool it returns "no active session".
C30_EvictsAmended ==
    [][/\ OpenStreamCall =>
             LET seen == Scanned(cSessions, rrIndex + 1, cur'[ForwardProxy].pick)
             IN  /\ cSessions' = SelectSeq(cSessions, LAMBDA k : k \notin seen \ closedO)
                 /\ cur'[ForwardProxy].pick \notin closedO
                 /\ cur'[ForwardProxy].pick = 0 =>
                       cur'[ForwardProxy].err = "all sessions dead"
       /\ (Len(cSessions) = 0 /\ cur'[ForwardProxy] # cur[ForwardProxy]) =>
             /\ cur'[ForwardProxy].err = "no active session"
             /\ cur'[ForwardProxy].pick = 0
             /\ cSessions' = cSessions
      ]_vars

\* C35: Client.OpenStream returns a substream without error only if the FORWARD
\* tag and the whole target header were written to it; if a write fails it
\* returns an error and no substream.
C35_ForwardHeader ==
    (cur[ForwardProxy].pick # 0 /\ cur[ForwardProxy].err = "none") =>
        Take(cur[ForwardProxy].wrote, Len(Preamble(ForwardProxy))) = Preamble(ForwardProxy)

\* a call found one session closed and the other failing: the failing one is
\* gone, the closed one is still in the pool
C30_Witness ==
    /\ cur[ForwardProxy].err = "all sessions dead"
    /\ Len(cSessions) = 1
    /\ cSessions[1] \in closedO

(***************************************************************************)
(* SpecAcct: one pool entry of the edge on which substreams are accepted   *)
(* and opened for TCP and UDP mappings, in any order, while flows expire,  *)
(* the origin closes substreams and the connection may be lost.            *)
(***************************************************************************)
nonLateVars == <<frameVars, routeVars, poolVars, handshakeVars, udpVars, openVars, relayVars, decoyVars, sizeVars, fragVars, dgramVars>>

NonLateIdle ==
    /\ FrameIdle /\ RouteIdle /\ PoolIdle /\ HandshakeIdle /\ UdpStart /\ OpenIdle
    /\ RelayIdle /\ DecoyIdle /\ SizeIdle /\ FragIdle /\ DgramIdle

InitAcct == NonLateIdle /\ AcctStart

NextAcct ==
    \/ (\E s \in SubIds : AcctAccept(s)) /\ UNCHANGED nonLateVars
    \/ (\E s \in SubIds : AcctHandled(s)) /\ UNCHANGED nonLateVars
    \/ (\E s \in SubIds, kind \in {"tcp", "udp"}, j \in 0..3 : AcctOpen(s, kind, j))
          /\ UNCHANGED nonLateVars
    \/ (\E s \in SubIds : AcctRelayEnds(s)) /\ UNCHANGED nonLateVars
    \/ (\E s \in SubIds : AcctSweep(s)) /\ UNCHANGED nonLateVars
    \/ (\E s \in SubIds : AcctPeerCloses(s)) /\ UNCHANGED nonLateVars
    \/ (\E s \in SubIds : AcctReaderLeaves(s)) /\ UNCHANGED nonLateVars
    \/ AcctBreaks /\ UNCHANGED nonLateVars

SpecAcct == InitAcct /\ [][NextAcct]_vars

\* the substreams counted on the entry that are open: this end has not closed
\* them, or its reader has yet to notice that the sweeper did
OpenCounted ==
    {s \in SubIds : sub[s].kind # "none" /\ (sub[s].st = "open" \/ sub[s].reader = "running")}

\* C31: on a pool entry of the edge, after any interleaving of accepted
\* streams, open_reverse_stream calls, relay completions, sweeps and stream
\* errors, active_streams is the number of open substreams counted on the
\* entry; it is never negative, every counted substream is decremented exactly
\* once, and the counter is 0 when all are closed.
C31_ActiveStreams ==
    /\ ssStreams >= 0
    /\ \A s \in SubIds : sub[s].decs <= 1
    /\ ~ssBroken => ssStreams = Cardinality(OpenCounted)
    /\ \A s \in SubIds : (sub[s].kind # "none" /\ s \notin OpenCounted) => sub[s].decs = 1
    /\ OpenCounted = {} => ssStreams = 0

(***************************************************************************)
(* SpecLengths: one task writes one plaintext of 0..MaxBuf bytes under     *)
(* every configuration, and the peer reads.                                *)
(***************************************************************************)
InitLengths ==
    /\ NonFrameIdle
    /\ FrameStart(FrameConfigs,
               {[t \in Tasks |-> IF t = 1 THEN <<p>> ELSE <<>>] :
                   p \in {<<>>} \cup Payloads(MaxBuf)}, 0)

NextLengths ==
    \/ Write(1) /\ UNCHANGED nonFrameVars
    \/ (\E n \in 1..MaxBuf : Read(n)) /\ UNCHANGED nonFrameVars
    \/ CloseConn /\ UNCHANGED nonFrameVars

SpecLengths == InitLengths /\ [][NextLengths]_vars

\* C33: every frame Write puts on the wire carries a length field in 1..16 MiB
\* that is the number of bytes following it, so that the peer's length check
\* accepts the frame, for every write size, the empty write without
\* encryption and padding included.
C33_EmittedLength ==
    [][Len(wire') > Len(wire) =>
          LET frame == SubSeq(wire', Len(wire) + 1, Len(wire'))
              length == Uint32(Take(frame, 4))
          IN  /\ Len(frame) >= 4
              /\ length = Len(frame) - 4
              /\ length >= 1 /\ length <= MaxPacket]_vars

(***************************************************************************)
(* SpecLeftover: one task writes a plaintext of MaxLen bytes and then a    *)
(* short one, under every configuration, while the peer reads with buffers *)
(* of 1..MaxBuf bytes.                                                     *)
(***************************************************************************)
InitLeftover ==
    /\ NonFrameIdle
    /\ FrameStart(FrameConfigs,
               {[t \in Tasks |-> IF t = 1 THEN <<Ramp(MaxLen), q>> ELSE <<>>] :
                   q \in {<<9>>, <<0, 1, 7>>}}, 0)

NextLeftover ==
    \/ Write(1) /\ UNCHANGED nonFrameVars
    \/ (\E n \in 1..MaxBuf : Read(n)) /\ UNCHANGED nonFrameVars
    \/ CloseConn /\ UNCHANGED nonFrameVars

SpecLeftover == InitLeftover /\ [][NextLeftover]_vars

\* the plaintexts of the packets in w, one after the other, as Read decodes them
RECURSIVE WirePlain(_, _)
WirePlain(c, w) ==
    IF Len(w) < 4 THEN <<>>
    ELSE LET pktLen == Uint32(Take(w, 4))
         IN  decodePacket(c, SubSeq(w, 5, 4 + pktLen)).v \o WirePlain(c, Drop(w, 4 + pktLen))

\* C34: for any sequence of received packets and any caller buffer sizes, the
\* bytes successive Reads return are, in order, the plaintexts of the packets:
\* what does not fit is kept in the leftover buffer and returned by the next
\* Reads before a new packet is read; nothing is lost, duplicated or reordered.
C34_LeftoverBuffer ==
    [][(rres'.err = "nil" /\ delivered' # delivered) =>
          /\ delivered' \o readBuf' \o WirePlain(cfg, wire')
                = delivered \o readBuf \o WirePlain(cfg, wire)
          /\ readBuf # <<>> =>
                /\ wire' = wire
                /\ delivered' \o readBuf' = delivered \o readBuf
          /\ Len(delivered') - Len(delivered) <= MaxBuf
          /\ readBuf' # <<>> => Len(delivered') - Len(delivered) = rres'.n /\ rres'.n >= 1
      ]_vars

\* Reads have returned a part of the first packet from the leftover buffer,
\* which holds the rest of it while the second packet waits on the stream
C34_Witness ==
    /\ readBuf # <<>> /\ wire # <<>>
    /\ Len(delivered) > MaxBuf
    /\ delivered \o readBuf = Ramp(MaxLen)
    /\ cfg.key # 0 /\ cfg.obfs.Enabled

(***************************************************************************)
(* The origin pool under its three writers: the pool workers               *)
(* (connectAndServe), sessionHealthCheck and Client.OpenStream, with        *)
(* transports that die and sessions that notice it.                         *)
(***************************************************************************)
InitOrigin ==
    /\ FrameIdle /\ RouteIdle /\ HandshakeIdle /\ UdpStart /\ AuxIdle
    /\ PoolStart({<<3000>>})
    /\ OpenStart({2})

NextOrigin ==
    \/ (\E w \in Workers, long \in BOOLEAN : Dial(w, TRUE, long)) /\ UNCHANGED nonOpenVars
    \/ (\E w \in Workers, long \in BOOLEAN : Handshake(w, long)) /\ UNCHANGED nonOpenVars
    \/ (\E w \in Workers, long \in BOOLEAN : ServeEnds(w, long)) /\ UNCHANGED nonOpenVars
    \/ (\E w \in Workers : Wake(w)) /\ UNCHANGED nonOpenVars
    \/ (\E k \in ConnIds : HandleTunnel(k, TRUE)) /\ UNCHANGED nonOpenVars
    \/ (\E k \in ConnIds : InPool(k) /\ LinkDies(k)) /\ UNCHANGED nonOpenVars
    \/ (\E k \in ConnIds : SessionCloses(k, "origin")) /\ UNCHANGED nonOpenVars
    \/ SessionHealthCheck /\ UNCHANGED nonOpenVars
    \/ (\E failing \in SUBSET (deadLinks \ closedO), j \in {0, 3} :
           ClientOpenStream(HostPort, failing, j))
          /\ UNCHANGED restOpenVars

SpecOrigin == InitOrigin /\ [][NextOrigin]_vars

\* worker w is blocked in the AcceptStream of a session that is not closed
Accepting(w) == wPc[w] = "serve" /\ wSess[w] \notin closedO

\* C38: a session that leaves the origin pool, whoever removes it, is closed
\* when the removal is over, and so no worker is blocked in the AcceptStream of
\* an open session that is not in the pool.
C38_NoOrphanSession ==
    [][/\ \A k \in ConnIds : (InPool(k) /\ ~InPool(k)') => k \in closedO'
       /\ \A w \in Workers : Accepting(w)' => InPool(wSess[w])']_vars

\* C39: the origin pool holds no session twice and no more sessions than there
\* are pool workers, and every session in it is the one session its worker is
\* serving at that moment, so that a worker never has two sessions in the pool.
C39_OriginPoolSize ==
    /\ Len(cSessions) <= Cardinality(Workers)
    /\ \A i, j \in 1..Len(cSessions) : cSessions[i] = cSessions[j] => i = j
    /\ \A i \in 1..Len(cSessions) :
          Cardinality({w \in Workers : wPc[w] = "serve" /\ wSess[w] = cSessions[i]}) = 1

\* a worker has lost a session, which is out of the pool again, and the pool
\* holds a session of every worker while health check and OpenStream ran
C39_Witness ==
    /\ Len(cSessions) = Cardinality(Workers)
    /\ tockO /\ rrIndex > 0

(***************************************************************************)
(* One UDP flow: up to MaxPackets datagrams in one direction.              *)
(***************************************************************************)
\* the datagrams of the model
Grams == {<<7>>, <<1, 2>>, <<3, 4, 5>>}

GramQueues == UNION {[1..m -> Grams] : m \in 1..MaxPackets}

nonDgramVars == <<frameVars, routeVars, poolVars, handshakeVars, udpVars, openVars, relayVars, decoyVars, sizeVars, fragVars, acctVars>>

InitDgram ==
    /\ FrameIdle /\ RouteIdle /\ PoolIdle /\ HandshakeIdle /\ UdpStart /\ OpenIdle
    /\ RelayIdle /\ DecoyIdle /\ SizeIdle /\ FragIdle /\ AcctStart
    /\ DgramStart({"up", "down"}, GramQueues)

NextDgram ==
    \/ ListenerWrites /\ UNCHANGED nonDgramVars
    \/ (\E n \in 1..Len(gStream) : RelayCopiesUp(n)) /\ UNCHANGED nonDgramVars
    \/ RelayCopiesDown /\ UNCHANGED nonDgramVars
    \/ (\E n \in 1..Len(gStream) : ReaderWrites(n)) /\ UNCHANGED nonDgramVars

SpecDgram == InitDgram /\ [][NextDgram]_vars

\* C40: the datagrams that come out at the other end of the flow are the
\* datagrams that went in, one for one and with the same payload, however the
\* reads of the substream fall.
C40_DatagramBoundaries ==
    /\ Len(gOut) <= Len(gSent)
    /\ \A i \in 1..Len(gOut) : gOut[i] = gSent[i]

====
